---------------------------- MODULE Spec2Model ----------------------------
(***************************************************************************)
(* Ledger and settlement engine of crypto_app: the balance store           *)
(* (UserPortfolio.balance_usd), the Deposit / Withdrawal / SwapRequest      *)
(* state machines and the referral bonus fired from Deposit.save.          *)
(*                                                                         *)
(* Concurrency model.  Every request handler, admin action and task runs   *)
(* in a worker.  A worker executes the handler's database statements one   *)
(* step at a time; steps of different workers interleave.  The database    *)
(* is a row store under READ COMMITTED with row locks:                     *)
(*   - db is the committed state;                                          *)
(*   - inside transaction.atomic a worker's writes go to tx[w] and become  *)
(*     visible to the others at commit; outside, a write commits at once;  *)
(*   - select_for_update and every UPDATE take the row's lock, held until  *)
(*     commit; a statement that needs a lock another worker holds is not   *)
(*     enabled (it waits);                                                 *)
(*   - a plain SELECT never waits and reads db overlaid with the worker's  *)
(*     own writes.                                                         *)
(* Model.save() writes every field of the in-memory object, so a stale     *)
(* object overwrites the row; save(update_fields=...) writes only those.   *)
(*                                                                         *)
(* Money is counted in units of 0.00001 USD.  balance_usd is a            *)
(* DecimalField(max_digits=20, decimal_places=4): the value a handler      *)
(* computes in Decimal arithmetic is rounded to a multiple of 0.0001 when  *)
(* the row is written (NUMERIC(20,4) rounds half away from zero); amounts  *)
(* arrive as Decimal(str(...)) of the request and keep every digit sent.   *)
(***************************************************************************)
EXTENDS Integers, Sequences, FiniteSets, TLC

VARIABLES db, tx, lock, hist, ev, pc, loc, res, now, price

vars == <<db, tx, lock, hist, ev, pc, loc, res, now, price>>

---------------------------------------------------------------------------
(* Bounds of the model *)

NWorkers == 2
MaxDeposits == 2
MaxWithdrawals == 1
MaxSwaps == 1
MaxTime == 10
TickMinutes == 5

Workers == 1..NWorkers
NoWorker == 0

(* Users: 1 is a customer referred by user 3; 2 is the approved merchant.  *)
Users == {1, 2, 3}
NoUser == 0
Merchant == 2
Referred == 1
Referrer == 3
(* The merchant can cover two deposits of DepositAmounts but not three. *)
InitialBalance ==
    [u \in Users |-> IF u = Referrer THEN 0 ELSE IF u = Merchant THEN 4000 ELSE 3000]
(* deposit_funds stores any amount it is sent, negative ones included *)
DepositAmounts == {2000, -4000}
PositiveAmounts == {a \in DepositAmounts : a > 0}

---------------------------------------------------------------------------
(* Row keys *)

P(u) == <<"UserPortfolio", u>>
A(u) == <<"Affiliate", u>>
D(i) == <<"Deposit", i>>
W(i) == <<"Withdrawal", i>>
S(i) == <<"SwapRequest", i>>

DepositIds == 1..MaxDeposits
WithdrawalIds == 1..MaxWithdrawals
SwapIds == 1..MaxSwaps

AllKeys == {P(u) : u \in Users} \cup {A(u) : u \in Users}
             \cup {D(i) : i \in 1..(MaxDeposits + NWorkers)}
             \cup {W(i) : i \in 1..(MaxWithdrawals + NWorkers)}
             \cup {S(i) : i \in 1..(MaxSwaps + NWorkers)}

Rows(kind) == {k \in DOMAIN db : k[1] = kind}
NextId(kind) == Cardinality(Rows(kind)) + 1

(* MerchantApplication rows (static): application id -> user, status *)
(* Application 2 is approved although its user's is_merchant flag is off.  *)
MerchantApplication ==
    [a \in {1, 2} |-> [user |-> IF a = 1 THEN Merchant ELSE Referrer, status |-> "APPROVED"]]

---------------------------------------------------------------------------
(* The database as a value, so that one step can run several statements *)

St == [db |-> db, tx |-> tx, lock |-> lock, hist |-> hist, ev |-> ev]

NoRows == [k \in {} |-> 0]
NoObj == <<>>
(* log: the actions of the AdminLog rows written for the transaction *)
ZeroHist == [debit |-> 0, credit |-> 0, refund |-> 0, bonus |-> 0, trades |-> 0, log |-> <<>>]

(* What worker w reads: the committed row overlaid with its own writes *)
View(s, w, k) == IF k \in DOMAIN s.tx[w] THEN s.tx[w][k] ELSE s.db[k]
Exists(s, w, k) == k \in DOMAIN s.tx[w] \/ k \in DOMAIN s.db

(* The row lock is free for w *)
Free(s, w, k) == s.lock[k] \in {NoWorker, w}

(* select_for_update: take the lock *)
LockRow(s, w, k) == [s EXCEPT !.lock[k] = w]

(* balance_usd = DecimalField(max_digits=20, decimal_places=4): one unit   *)
(* of the column is BalanceUnit units of the model                         *)
BalanceUnit == 10

(* The value a NUMERIC(20,4) column keeps of v: the nearest multiple of    *)
(* BalanceUnit, a tie going away from zero                                 *)
Quantize(v) ==
    LET a == IF v < 0 THEN -v ELSE v
        r == a % BalanceUnit
        q == IF 2 * r >= BalanceUnit THEN a - r + BalanceUnit ELSE a - r
    IN  IF v < 0 THEN -q ELSE q

(* The row as the table keeps it *)
Stored(k, v) ==
    IF k[1] = "UserPortfolio" THEN [v EXCEPT !.balance_usd = Quantize(@)] ELSE v

(* UPDATE / INSERT of a row: inside atomic it is buffered and locks the    *)
(* row; in autocommit it is committed at once.                             *)
WriteRow(s, w, k, v, atomic) ==
    IF atomic
    THEN [s EXCEPT !.tx[w] = (k :> Stored(k, v)) @@ @, !.lock[k] = w]
    ELSE [s EXCEPT !.db = (k :> Stored(k, v)) @@ @]

(* Bookkeeping (history, not program state): a balance was moved on        *)
(* behalf of transaction row k; it counts once the writer commits.         *)
(* An AdminLog row of log_admin_action is kept with the transaction's      *)
(* history, under its action.                                              *)
Bump(h, k, f) ==
    IF f \in {"APPROVED", "REJECTED", "CANCELLED"}
    THEN [h EXCEPT ![k].log = Append(@, f)]
    ELSE [h EXCEPT ![k][f] = @ + 1]

RECURSIVE BumpAll(_, _)
BumpAll(h, evs) ==
    IF evs = <<>> THEN h
    ELSE BumpAll(Bump(h, Head(evs)[1], Head(evs)[2]), Tail(evs))

Moved(s, w, k, f, atomic) ==
    IF atomic
    THEN [s EXCEPT !.ev[w] = Append(@, <<k, f>>)]
    ELSE [s EXCEPT !.hist = Bump(@, k, f)]

(* COMMIT: publish the writes, release the locks *)
Commit(s, w) ==
    [s EXCEPT !.db = s.tx[w] @@ s.db,
              !.tx[w] = NoRows,
              !.lock = [k \in DOMAIN s.lock |-> IF s.lock[k] = w THEN NoWorker ELSE s.lock[k]],
              !.hist = BumpAll(s.hist, s.ev[w]),
              !.ev[w] = <<>>]

(* ROLLBACK: drop the writes, release the locks *)
Rollback(s, w) ==
    [s EXCEPT !.tx[w] = NoRows,
              !.lock = [k \in DOMAIN s.lock |-> IF s.lock[k] = w THEN NoWorker ELSE s.lock[k]],
              !.ev[w] = <<>>]

Store(s) ==
    /\ db' = s.db
    /\ tx' = s.tx
    /\ lock' = s.lock
    /\ hist' = s.hist
    /\ ev' = s.ev

---------------------------------------------------------------------------
(* Workers *)

Idle == [op |-> "idle", id |-> 0, user |-> NoUser, obj |-> NoObj, pf |-> NoObj,
         ret |-> "", atomic |-> FALSE, flag |-> FALSE,
         due_swaps |-> <<>>, todo |-> <<>>, processed_count |-> 0, failed_count |-> 0]

Goto(w, label, l) ==
    /\ pc' = [pc EXCEPT ![w] = label]
    /\ loc' = [loc EXCEPT ![w] = l]
    /\ UNCHANGED res

(* The handler returns; res is the response of the last handler that      *)
(* returned: which handler, and what its caller observes.                  *)
Return(w, outcome) ==
    /\ pc' = [pc EXCEPT ![w] = "idle"]
    /\ loc' = [loc EXCEPT ![w] = Idle]
    /\ res' = [op |-> loc[w].op, outcome |-> outcome]

(* The first statement of a handler: same as Return/Goto with the locals   *)
(* of the call, for a worker that was idle.                                *)
Call(op, id, user, atomic) ==
    [Idle EXCEPT !.op = op, !.id = id, !.user = user, !.atomic = atomic]

ReturnOf(w, l, outcome) ==
    /\ pc' = [pc EXCEPT ![w] = "idle"]
    /\ loc' = [loc EXCEPT ![w] = Idle]
    /\ res' = [op |-> l.op, outcome |-> outcome]

Balance(u) == db[P(u)].balance_usd


---------------------------------------------------------------------------
(* Deposits *)

Depositors == {Referred}

(* deposit_funds: the 3.5% fee of a merchant-mediated deposit *)
DepositFee(base) == (base * 35) \div 1000

NewDeposit(u, amt, method, merchant, notes) ==
    [user |-> u, amount |-> amt, method |-> method, merchant |-> merchant,
     merchant_action_required |-> (merchant # NoUser), status |-> "PENDING",
     deposit_notes |-> notes]

FeeNotes(base) ==
    <<[base_amount |-> base, fee_amount |-> DepositFee(base),
       total_amount_with_fee |-> base + DepositFee(base)]>>

(* fee_info.get('base_amount', deposit.amount) *)
BaseAmount(dep) ==
    IF dep.deposit_notes = <<>> THEN dep.amount ELSE dep.deposit_notes[1].base_amount

(* Deposit._process_referral_bonus: 15% of this deposit's amount *)
BonusAmount(dep) == (dep.amount * 15) \div 100

(* deposit_funds without the test of the is_frozen flag *)
deposit_funds_while_suspended(w, u, amt, method, mid) ==
    /\ pc[w] = "idle"
    /\ NextId("Deposit") <= MaxDeposits
    /\ UNCHANGED <<now, price>>
    /\ LET l == Call("deposit_funds", NextId("Deposit"), u, FALSE)
           k == D(NextId("Deposit"))
           ins(row) == [St EXCEPT !.db = (k :> row) @@ @, !.hist = (k :> ZeroHist) @@ @]
       IN  IF method = "BANK_TRANSFER"
           THEN IF mid \notin DOMAIN MerchantApplication
                   \/ MerchantApplication[mid].status # "APPROVED"
                THEN Store(St) /\ ReturnOf(w, l, "merchant_not_found")
                ELSE IF ~db[P(MerchantApplication[mid].user)].is_merchant
                THEN Store(St) /\ ReturnOf(w, l, "merchant_not_active")
                ELSE /\ Store(ins(NewDeposit(u, amt, method,
                                             MerchantApplication[mid].user, FeeNotes(amt))))
                     /\ ReturnOf(w, l, "success")
           ELSE /\ Store(ins(NewDeposit(u, amt, method, NoUser, <<>>)))
                /\ ReturnOf(w, l, "success")

(* deposit_funds: creates the PENDING record; no balance moves *)
deposit_funds(w, u, amt, method, mid) ==
    /\ pc[w] = "idle"
    /\ NextId("Deposit") <= MaxDeposits
    /\ UNCHANGED <<now, price>>
    /\ LET l == Call("deposit_funds", NextId("Deposit"), u, FALSE)
           k == D(NextId("Deposit"))
           ins(row) == [St EXCEPT !.db = (k :> row) @@ @, !.hist = (k :> ZeroHist) @@ @]
       IN  IF db[P(u)].is_frozen
           THEN Store(St) /\ ReturnOf(w, l, "suspended")
           ELSE IF method = "BANK_TRANSFER"
           THEN IF mid \notin DOMAIN MerchantApplication
                   \/ MerchantApplication[mid].status # "APPROVED"
                THEN Store(St) /\ ReturnOf(w, l, "merchant_not_found")
                ELSE IF ~db[P(MerchantApplication[mid].user)].is_merchant
                THEN Store(St) /\ ReturnOf(w, l, "merchant_not_active")
                ELSE /\ Store(ins(NewDeposit(u, amt, method,
                                             MerchantApplication[mid].user, FeeNotes(amt))))
                     /\ ReturnOf(w, l, "success")
           ELSE /\ Store(ins(NewDeposit(u, amt, method, NoUser, <<>>)))
                /\ ReturnOf(w, l, "success")

(* Deposit.save: was_approved is read from the stored row, then the whole  *)
(* object is written.                                                      *)
WasApproved(old, new) == old.status # "APPROVED" /\ new.status = "APPROVED"

(* Where a handler goes after deposit.save(): into the referral bonus when *)
(* the save saw the deposit turn APPROVED.                                 *)
AfterSave(was, next) == IF was THEN "rb_pf_read" ELSE next

(* ---- Deposit._process_referral_bonus, statement by statement ---- *)

(* user_portfolio = UserPortfolio.objects.get(user=self.user) *)
referral_read_portfolio(w) ==
    /\ pc[w] = "rb_pf_read"
    /\ UNCHANGED <<db, tx, lock, hist, ev, now, price>>
    /\ LET pf == View(St, w, P(loc[w].obj.user))
       IN  Goto(w, IF pf.initial_deposit_amount = <<>> THEN "rb_pf_write" ELSE "rb_aff_read",
                [loc[w] EXCEPT !.pf = pf])

(* user_portfolio.initial_deposit_amount = self.amount; user_portfolio.save() *)
referral_save_portfolio(w) ==
    /\ pc[w] = "rb_pf_write"
    /\ Free(St, w, P(loc[w].obj.user))
    /\ UNCHANGED <<now, price>>
    /\ Store(WriteRow(St, w, P(loc[w].obj.user),
                      [loc[w].pf EXCEPT !.initial_deposit_amount = <<loc[w].obj.amount>>],
                      loc[w].atomic))
    /\ Goto(w, "rb_aff_read", loc[w])

(* affiliate = Affiliate.objects.get(referred_user=self.user);             *)
(* if not affiliate.has_funded_wallet                                      *)
referral_read_affiliate(w) ==
    /\ pc[w] = "rb_aff_read"
    /\ UNCHANGED <<db, tx, lock, hist, ev, now, price>>
    /\ LET k == A(loc[w].obj.user)
       IN  IF Exists(St, w, k) /\ ~View(St, w, k).has_funded_wallet
           THEN Goto(w, "rb_aff_write", loc[w])
           ELSE Goto(w, loc[w].ret, loc[w])

(* affiliate.has_funded_wallet = True; affiliate.save() *)
referral_save_affiliate(w) ==
    /\ pc[w] = "rb_aff_write"
    /\ Free(St, w, A(loc[w].obj.user))
    /\ UNCHANGED <<now, price>>
    /\ LET k == A(loc[w].obj.user)
       IN  Store(WriteRow(St, w, k, [View(St, w, k) EXCEPT !.has_funded_wallet = TRUE],
                          loc[w].atomic))
    /\ Goto(w, "rb_ref_read", loc[w])

(* referrer_portfolio = UserPortfolio.objects.get(user=affiliate.referrer) *)
referral_read_referrer(w) ==
    /\ pc[w] = "rb_ref_read"
    /\ UNCHANGED <<db, tx, lock, hist, ev, now, price>>
    /\ LET ref == View(St, w, A(loc[w].obj.user)).referrer
       IN  Goto(w, "rb_ref_write", [loc[w] EXCEPT !.pf = View(St, w, P(ref))])

(* referrer_portfolio.balance_usd += bonus_amount; referrer_portfolio.save() *)
referral_save_referrer(w) ==
    /\ pc[w] = "rb_ref_write"
    /\ UNCHANGED <<now, price>>
    /\ LET ref == View(St, w, A(loc[w].obj.user)).referrer
           s1 == WriteRow(St, w, P(ref),
                          [loc[w].pf EXCEPT !.balance_usd = @ + BonusAmount(loc[w].obj)],
                          loc[w].atomic)
       IN  /\ Free(St, w, P(ref))
           /\ Store(Moved(s1, w, D(loc[w].id), "bonus", loc[w].atomic))
    /\ Goto(w, loc[w].ret, loc[w])

(* ---- merchant_approve_deposit ---- *)

(* The row the merchant's select_for_update().get(...) asks for *)
MerchantActionable(dep, u) ==
    /\ dep.merchant = u
    /\ dep.status = "PENDING"
    /\ dep.merchant_action_required

merchant_approve_deposit(w, u, d) ==
    /\ pc[w] = "idle"
    /\ UNCHANGED <<now, price>>
    /\ LET l == Call("merchant_approve_deposit", d, u, TRUE)
       IN  IF D(d) \in DOMAIN db /\ MerchantActionable(db[D(d)], u)
           THEN /\ Free(St, w, D(d))
                /\ Store(LockRow(St, w, D(d)))
                /\ Goto(w, "mad_debit", [l EXCEPT !.obj = db[D(d)]])
           ELSE Store(St) /\ ReturnOf(w, l, "not_found")

(* merchant_approve_deposit without the test of the merchant's balance *)
merchant_approve_deposit_debit_unchecked(w) ==
    /\ pc[w] = "mad_debit"
    /\ Free(St, w, P(loc[w].user))
    /\ UNCHANGED <<now, price>>
    /\ LET pf == View(St, w, P(loc[w].user))
           base == BaseAmount(loc[w].obj)
           new == [loc[w].obj EXCEPT !.status = "APPROVED", !.merchant_action_required = FALSE]
           s1 == WriteRow(LockRow(St, w, P(loc[w].user)), w, P(loc[w].user),
                          [pf EXCEPT !.balance_usd = @ - base], TRUE)
           s2 == Moved(s1, w, D(loc[w].id), "debit", TRUE)
           was == WasApproved(View(s2, w, D(loc[w].id)), new)
           s3 == WriteRow(s2, w, D(loc[w].id), new, TRUE)
       IN  /\ Store(s3)
           /\ Goto(w, AfterSave(was, "mad_credit"),
                   [loc[w] EXCEPT !.obj = new, !.ret = "mad_credit"])

(* lock the merchant's portfolio, check it, debit base_amount, then        *)
(* deposit.status = 'APPROVED'; merchant_action_required = False; save()   *)
merchant_approve_deposit_debit(w) ==
    /\ pc[w] = "mad_debit"
    /\ Free(St, w, P(loc[w].user))
    /\ UNCHANGED <<now, price>>
    /\ LET pf == View(St, w, P(loc[w].user))
           base == BaseAmount(loc[w].obj)
           new == [loc[w].obj EXCEPT !.status = "APPROVED", !.merchant_action_required = FALSE]
           s1 == WriteRow(LockRow(St, w, P(loc[w].user)), w, P(loc[w].user),
                          [pf EXCEPT !.balance_usd = @ - base], TRUE)
           s2 == Moved(s1, w, D(loc[w].id), "debit", TRUE)
           was == WasApproved(View(s2, w, D(loc[w].id)), new)
           s3 == WriteRow(s2, w, D(loc[w].id), new, TRUE)
       IN  IF pf.balance_usd < base
           THEN Store(Commit(St, w)) /\ Return(w, "insufficient")
           ELSE /\ Store(s3)
                /\ Goto(w, AfterSave(was, "mad_credit"),
                        [loc[w] EXCEPT !.obj = new, !.ret = "mad_credit"])

(* lock the depositor's portfolio, credit base_amount, commit *)
merchant_approve_deposit_credit(w) ==
    /\ pc[w] = "mad_credit"
    /\ Free(St, w, P(loc[w].obj.user))
    /\ UNCHANGED <<now, price>>
    /\ LET k == P(loc[w].obj.user)
           pf == View(St, w, k)
           s1 == WriteRow(St, w, k, [pf EXCEPT !.balance_usd = @ + BaseAmount(loc[w].obj)], TRUE)
           s2 == Moved(s1, w, D(loc[w].id), "credit", TRUE)
       IN  Store(Commit(s2, w))
    /\ Return(w, "success")

(* ---- merchant_decline_deposit (no transaction, no lock) ---- *)

merchant_decline_deposit(w, u, d) ==
    /\ pc[w] = "idle"
    /\ UNCHANGED <<db, tx, lock, hist, ev, now, price>>
    /\ LET l == Call("merchant_decline_deposit", d, u, FALSE)
       IN  IF D(d) \in DOMAIN db /\ MerchantActionable(db[D(d)], u)
           THEN Goto(w, "mdd_save", [l EXCEPT !.obj = db[D(d)]])
           ELSE ReturnOf(w, l, "not_found")

(* deposit.status = 'REJECTED'; merchant_action_required = False; save() *)
merchant_decline_deposit_save(w) ==
    /\ pc[w] = "mdd_save"
    /\ Free(St, w, D(loc[w].id))
    /\ UNCHANGED <<now, price>>
    /\ Store(WriteRow(St, w, D(loc[w].id),
                      [loc[w].obj EXCEPT !.status = "REJECTED",
                                         !.merchant_action_required = FALSE], FALSE))
    /\ Return(w, "success")

(* ---- confirm_merchant_payment (no transaction, no lock) ---- *)

confirm_merchant_payment(w, u, d) ==
    /\ pc[w] = "idle"
    /\ UNCHANGED <<db, tx, lock, hist, ev, now, price>>
    /\ LET l == Call("confirm_merchant_payment", d, u, FALSE)
       IN  IF ~(D(d) \in DOMAIN db /\ db[D(d)].method = "BANK_TRANSFER")
           THEN ReturnOf(w, l, "error")
           ELSE IF db[D(d)].merchant # u
           THEN ReturnOf(w, l, "not_authorized")
           ELSE IF db[D(d)].status # "PENDING"
           THEN ReturnOf(w, l, "already_processed")
           ELSE Goto(w, "cmp_save_old", [l EXCEPT !.obj = [db[D(d)] EXCEPT !.status = "APPROVED"]])

(* Deposit.save: old_deposit = Deposit.objects.get(pk=self.pk) *)
confirm_merchant_payment_old(w) ==
    /\ pc[w] = "cmp_save_old"
    /\ UNCHANGED <<db, tx, lock, hist, ev, now, price>>
    /\ Goto(w, "cmp_save", [loc[w] EXCEPT !.flag = WasApproved(db[D(loc[w].id)], loc[w].obj)])

(* Deposit.save: super().save() *)
confirm_merchant_payment_save(w) ==
    /\ pc[w] = "cmp_save"
    /\ Free(St, w, D(loc[w].id))
    /\ UNCHANGED <<now, price>>
    /\ Store(WriteRow(St, w, D(loc[w].id), loc[w].obj, FALSE))
    /\ Goto(w, AfterSave(loc[w].flag, "cmp_pf_read"), [loc[w] EXCEPT !.ret = "cmp_pf_read"])

(* merchant_portfolio = UserPortfolio.objects.get(user=deposit.merchant) *)
confirm_merchant_payment_read(w) ==
    /\ pc[w] = "cmp_pf_read"
    /\ UNCHANGED <<db, tx, lock, hist, ev, now, price>>
    /\ Goto(w, "cmp_pf_write", [loc[w] EXCEPT !.pf = db[P(loc[w].obj.merchant)]])

(* merchant_portfolio.balance_usd -= deposit.amount; save() *)
confirm_merchant_payment_debit(w) ==
    /\ pc[w] = "cmp_pf_write"
    /\ Free(St, w, P(loc[w].obj.merchant))
    /\ UNCHANGED <<now, price>>
    /\ LET s1 == WriteRow(St, w, P(loc[w].obj.merchant),
                          [loc[w].pf EXCEPT !.balance_usd = @ - loc[w].obj.amount], FALSE)
       IN  Store(Moved(s1, w, D(loc[w].id), "debit", FALSE))
    /\ Return(w, "success")

(* ---- DepositAdmin.approve_deposits on one selected deposit ---- *)

(* queryset.filter(status='PENDING'), evaluated when the loop starts *)
StillPending(row) == row.status = "PENDING"

MerchantMediated(dep) == dep.method = "BANK_TRANSFER" /\ dep.merchant # NoUser

approve_deposits(w, d) ==
    /\ pc[w] = "idle"
    /\ UNCHANGED <<db, tx, lock, hist, ev, now, price>>
    /\ LET l == Call("approve_deposits", d, NoUser, TRUE)
       IN  IF D(d) \in DOMAIN db /\ StillPending(db[D(d)])
           THEN Goto(w, IF MerchantMediated(db[D(d)]) THEN "ad_debit" ELSE "pd_lock",
                     [l EXCEPT !.obj = db[D(d)]])
           ELSE ReturnOf(w, l, "none_pending")

(* lock the merchant's portfolio, check it, debit base_amount *)
approve_deposits_debit(w) ==
    /\ pc[w] = "ad_debit"
    /\ Free(St, w, P(loc[w].obj.merchant))
    /\ UNCHANGED <<now, price>>
    /\ LET k == P(loc[w].obj.merchant)
           pf == View(St, w, k)
           base == BaseAmount(loc[w].obj)
           s1 == WriteRow(St, w, k, [pf EXCEPT !.balance_usd = @ - base], TRUE)
       IN  IF pf.balance_usd < base
           THEN Store(Commit(St, w)) /\ Return(w, "insufficient")
           ELSE Store(Moved(s1, w, D(loc[w].id), "debit", TRUE)) /\ Goto(w, "pd_lock", loc[w])

(* TransactionProcessor.process_deposit: select_for_update().get(id,       *)
(* status='PENDING'); status = 'APPROVED'; save().  When the row is gone   *)
(* it returns an error, approve_deposits logs it and the action's          *)
(* transaction commits what it had written.                                *)
process_deposit(w) ==
    /\ pc[w] = "pd_lock"
    /\ UNCHANGED <<now, price>>
    /\ LET k == D(loc[w].id)
           row == View(St, w, k)
           new == [row EXCEPT !.status = "APPROVED"]
           s1 == WriteRow(LockRow(St, w, k), w, k, new, TRUE)
       IN  IF StillPending(row)
           THEN /\ Free(St, w, k)
                /\ Store(s1)
                /\ Goto(w, AfterSave(WasApproved(row, new), "pd_credit"),
                        [loc[w] EXCEPT !.obj = new, !.ret = "pd_credit"])
           ELSE Store(Commit(St, w)) /\ Return(w, "not_found")

(* portfolio = select_for_update().get(user=deposit.user);                 *)
(* balance_usd += deposit.amount; save(); the action commits               *)
process_deposit_credit(w) ==
    /\ pc[w] = "pd_credit"
    /\ Free(St, w, P(loc[w].obj.user))
    /\ UNCHANGED <<now, price>>
    /\ LET k == P(loc[w].obj.user)
           pf == View(St, w, k)
           s1 == WriteRow(St, w, k, [pf EXCEPT !.balance_usd = @ + loc[w].obj.amount], TRUE)
       IN  Store(Commit(Moved(s1, w, D(loc[w].id), "credit", TRUE), w))
    /\ Return(w, "success")

(* ---- DepositAdmin.reject_deposits: deposits.update(status='REJECTED') ---- *)
(* log_admin_action then evaluates the same PENDING queryset, which no     *)
(* longer holds the rows just rejected: no AdminLog row is written.        *)
reject_deposits(w, d) ==
    /\ pc[w] = "idle"
    /\ UNCHANGED <<now, price>>
    /\ LET l == Call("reject_deposits", d, NoUser, TRUE)
       IN  IF D(d) \in DOMAIN db /\ StillPending(db[D(d)])
           THEN /\ Free(St, w, D(d))
                /\ Store(Commit(WriteRow(St, w, D(d), [db[D(d)] EXCEPT !.status = "REJECTED"], TRUE), w))
                /\ ReturnOf(w, l, "success")
           ELSE Store(St) /\ ReturnOf(w, l, "none_pending")

(* ---- views.reject_deposit: get(status="PENDING"); status = "REJECTED"; save() ---- *)
reject_deposit(w, d) ==
    /\ pc[w] = "idle"
    /\ UNCHANGED <<db, tx, lock, hist, ev, now, price>>
    /\ LET l == Call("reject_deposit", d, NoUser, TRUE)
       IN  IF D(d) \in DOMAIN db /\ StillPending(db[D(d)])
           THEN Goto(w, "rd_save", [l EXCEPT !.obj = db[D(d)]])
           ELSE ReturnOf(w, l, "not_found")

reject_deposit_save(w) ==
    /\ pc[w] = "rd_save"
    /\ Free(St, w, D(loc[w].id))
    /\ UNCHANGED <<now, price>>
    /\ Store(Commit(WriteRow(St, w, D(loc[w].id), [loc[w].obj EXCEPT !.status = "REJECTED"], TRUE), w))
    /\ Return(w, "success")

ReferralSteps(w) ==
    \/ referral_read_portfolio(w)
    \/ referral_save_portfolio(w)
    \/ referral_read_affiliate(w)
    \/ referral_save_affiliate(w)
    \/ referral_read_referrer(w)
    \/ referral_save_referrer(w)

---------------------------------------------------------------------------
(* Withdrawals *)

WithdrawAmounts == {0, 2000, 4000}
Senders == {Referred, Merchant}
(* account_number of a user is the user's id; 9 is no account *)
AccountNumbers == {1, 2, 9}

(* withdraw_funds, BANK branch: fee_amount = amount * Decimal('0.05') *)
WithdrawalFee(amount) == (amount * 5) \div 100

WithdrawalNotes(amount) ==
    <<[fee_percentage |-> 35, fee_amount |-> WithdrawalFee(amount),
       user_receives |-> amount - WithdrawalFee(amount),
       total_amount_processed |-> amount]>>

NewWithdrawal(u, amt, method, merchant, status, notes) ==
    [user |-> u, amount |-> amt, method |-> method, merchant |-> merchant,
     user_confirmation_required |-> (method = "BANK"), status |-> status,
     confirmed_at |-> <<>>, withdrawal_notes |-> notes]

(* fee_info.get('total_amount_processed', withdrawal.amount) *)
TotalAmount(wd) ==
    IF wd.withdrawal_notes = <<>> THEN wd.amount
    ELSE wd.withdrawal_notes[1].total_amount_processed

InsertWithdrawal(s, w, row) ==
    LET k == W(Cardinality({r \in DOMAIN s.db : r[1] = "Withdrawal"}) + 1)
    IN  [WriteRow(s, w, k, row, TRUE) EXCEPT !.hist = (k :> ZeroHist) @@ @]

(* sender_portfolio.balance_usd -= amount; save(); the atomic block ends *)
EscrowAndCommit(s, w, u, pf, amount) ==
    Commit(WriteRow(s, w, P(u), [pf EXCEPT !.balance_usd = @ - amount], TRUE), w)

(* withdraw_funds up to the branch on the method: frozen check, amount     *)
(* check, lock of the sender's portfolio, balance check.  The external     *)
(* branch and the BANK branch with an active merchant finish here.         *)
withdraw_funds(w, u, amount, method, mid, acct) ==
    /\ pc[w] = "idle"
    /\ NextId("Withdrawal") <= MaxWithdrawals
    /\ UNCHANGED <<now, price>>
    /\ LET l == Call("withdraw_funds", 0, u, TRUE)
           pf == db[P(u)]
           s0 == LockRow(St, w, P(u))
       IN  IF pf.is_frozen
           THEN Store(St) /\ ReturnOf(w, l, "suspended")
           ELSE IF amount <= 0
           THEN Store(St) /\ ReturnOf(w, l, "invalid_amount")
           ELSE /\ Free(St, w, P(u))
                /\ IF pf.balance_usd < amount
                   THEN Store(St) /\ ReturnOf(w, l, "insufficient")
                   ELSE IF method = "BANK"
                   THEN IF mid \notin DOMAIN MerchantApplication
                           \/ MerchantApplication[mid].status # "APPROVED"
                        THEN Store(St) /\ ReturnOf(w, l, "merchant_not_found")
                        ELSE LET m == MerchantApplication[mid].user
                                 row == NewWithdrawal(u, amount, "BANK", m, "PENDING",
                                                      WithdrawalNotes(amount))
                             IN  IF db[P(m)].is_merchant
                                 THEN /\ Store(EscrowAndCommit(InsertWithdrawal(s0, w, row),
                                                               w, u, pf, amount))
                                      /\ ReturnOf(w, l, "success")
                                 ELSE /\ Store(s0)
                                      /\ Goto(w, "wf_merchant",
                                              [l EXCEPT !.obj = row, !.pf = db[P(m)]])
                   ELSE IF method = "INTERNAL"
                   THEN IF acct \notin Users
                        THEN Store(St) /\ ReturnOf(w, l, "recipient_not_found")
                        ELSE /\ Store(s0)
                             /\ Goto(w, "wf_internal",
                                     [l EXCEPT !.id = acct,
                                               !.obj = NewWithdrawal(u, amount, "INTERNAL", NoUser,
                                                                     "COMPLETED", <<>>)])
                   ELSE /\ Store(EscrowAndCommit(
                                   InsertWithdrawal(s0, w, NewWithdrawal(u, amount, method, NoUser,
                                                                         "PENDING", <<>>)),
                                   w, u, pf, amount))
                        /\ ReturnOf(w, l, "success")

(* BANK branch, merchant flag off: merchant_portfolio.is_merchant = True;  *)
(* merchant_portfolio.save(); then the record and the escrow               *)
withdraw_funds_merchant(w) ==
    /\ pc[w] = "wf_merchant"
    /\ Free(St, w, P(loc[w].obj.merchant))
    /\ UNCHANGED <<now, price>>
    /\ LET s1 == WriteRow(St, w, P(loc[w].obj.merchant),
                          [loc[w].pf EXCEPT !.is_merchant = TRUE], TRUE)
           s2 == InsertWithdrawal(s1, w, loc[w].obj)
       IN  Store(EscrowAndCommit(s2, w, loc[w].user, View(s2, w, P(loc[w].user)),
                                 loc[w].obj.amount))
    /\ Return(w, "success")

(* The INTERNAL branch without "if recipient_portfolio.user == user" *)
withdraw_funds_internal_to_anyone(w) ==
    /\ pc[w] = "wf_internal"
    /\ Free(St, w, P(loc[w].id))
    /\ UNCHANGED <<now, price>>
    /\ LET u == loc[w].user
           r == loc[w].id
           a == loc[w].obj.amount
           s1 == WriteRow(St, w, P(u), [View(St, w, P(u)) EXCEPT !.balance_usd = @ - a], TRUE)
           s2 == WriteRow(s1, w, P(r), [View(s1, w, P(r)) EXCEPT !.balance_usd = @ + a], TRUE)
       IN  Store(Commit(InsertWithdrawal(s2, w, loc[w].obj), w)) /\ Return(w, "success")

(* INTERNAL branch: lock the recipient, move the amount, record COMPLETED *)
withdraw_funds_internal(w) ==
    /\ pc[w] = "wf_internal"
    /\ Free(St, w, P(loc[w].id))
    /\ UNCHANGED <<now, price>>
    /\ LET u == loc[w].user
           r == loc[w].id
           a == loc[w].obj.amount
           s1 == WriteRow(St, w, P(u), [View(St, w, P(u)) EXCEPT !.balance_usd = @ - a], TRUE)
           s2 == WriteRow(s1, w, P(r), [View(s1, w, P(r)) EXCEPT !.balance_usd = @ + a], TRUE)
       IN  IF r = u
           THEN Store(Commit(St, w)) /\ Return(w, "own_account")
           ELSE Store(Commit(InsertWithdrawal(s2, w, loc[w].obj), w)) /\ Return(w, "success")

(* Two INTERNAL requests each hold their sender's row and wait for the     *)
(* other's: the database aborts one of them, the request's except clause   *)
(* answers with an error and its transaction is rolled back                *)
withdraw_funds_deadlock(w) ==
    /\ pc[w] = "wf_internal"
    /\ \E v \in Workers \ {w} :
          /\ pc[v] = "wf_internal"
          /\ lock[P(loc[w].id)] = v
          /\ lock[P(loc[v].id)] = w
    /\ UNCHANGED <<now, price>>
    /\ Store(Rollback(St, w))
    /\ Return(w, "error")

(* ---- user_confirm_withdrawal / user_decline_withdrawal ---- *)

(* The row select_for_update().get(user, status='PENDING',                 *)
(* user_confirmation_required=True) asks for                               *)
AwaitingUser(wd, u) ==
    /\ wd.user = u
    /\ wd.status = "PENDING"
    /\ wd.user_confirmation_required

user_confirm_withdrawal(w, u, i) ==
    /\ pc[w] = "idle"
    /\ UNCHANGED <<now, price>>
    /\ LET l == Call("user_confirm_withdrawal", i, u, TRUE)
       IN  IF W(i) \in DOMAIN db /\ AwaitingUser(db[W(i)], u)
           THEN /\ Free(St, w, W(i))
                /\ Store(LockRow(St, w, W(i)))
                /\ Goto(w, "ucw_credit", [l EXCEPT !.obj = db[W(i)]])
           ELSE Store(St) /\ ReturnOf(w, l, "not_found")

(* credit the merchant with total_amount; status COMPLETED; commit *)
user_confirm_withdrawal_credit(w) ==
    /\ pc[w] = "ucw_credit"
    /\ Free(St, w, P(loc[w].obj.merchant))
    /\ UNCHANGED <<now, price>>
    /\ LET m == P(loc[w].obj.merchant)
           s1 == WriteRow(St, w, m,
                          [View(St, w, m) EXCEPT !.balance_usd = @ + TotalAmount(loc[w].obj)], TRUE)
           s2 == WriteRow(s1, w, W(loc[w].id),
                          [loc[w].obj EXCEPT !.status = "COMPLETED",
                                             !.user_confirmation_required = FALSE,
                                             !.confirmed_at = <<now>>], TRUE)
       IN  Store(Commit(Moved(s2, w, W(loc[w].id), "credit", TRUE), w))
    /\ Return(w, "success")

user_decline_withdrawal(w, u, i) ==
    /\ pc[w] = "idle"
    /\ UNCHANGED <<now, price>>
    /\ LET l == Call("user_decline_withdrawal", i, u, TRUE)
       IN  IF W(i) \in DOMAIN db /\ AwaitingUser(db[W(i)], u)
           THEN /\ Free(St, w, W(i))
                /\ Store(LockRow(St, w, W(i)))
                /\ Goto(w, "udw_refund", [l EXCEPT !.obj = db[W(i)]])
           ELSE Store(St) /\ ReturnOf(w, l, "not_found")

(* refund the user with withdrawal.amount; status REJECTED; commit *)
user_decline_withdrawal_refund(w) ==
    /\ pc[w] = "udw_refund"
    /\ Free(St, w, P(loc[w].user))
    /\ UNCHANGED <<now, price>>
    /\ LET k == P(loc[w].user)
           s1 == WriteRow(St, w, k,
                          [View(St, w, k) EXCEPT !.balance_usd = @ + loc[w].obj.amount], TRUE)
           s2 == WriteRow(s1, w, W(loc[w].id),
                          [loc[w].obj EXCEPT !.status = "REJECTED",
                                             !.user_confirmation_required = FALSE], TRUE)
       IN  Store(Commit(Moved(s2, w, W(loc[w].id), "refund", TRUE), w))
    /\ Return(w, "success")

(* ---- WithdrawalAdmin actions on one selected withdrawal ---- *)

P2P(wd) == wd.method = "BANK" /\ wd.merchant # NoUser

(* approve_withdrawals: withdrawals = queryset.filter(status='PENDING') *)
approve_withdrawals(w, i) ==
    /\ pc[w] = "idle"
    /\ UNCHANGED <<db, tx, lock, hist, ev, now, price>>
    /\ LET l == Call("approve_withdrawals", i, NoUser, TRUE)
       IN  IF W(i) \in DOMAIN db /\ StillPending(db[W(i)])
           THEN Goto(w, IF P2P(db[W(i)]) THEN "aw_credit" ELSE "aw_save", [l EXCEPT !.obj = db[W(i)]])
           ELSE ReturnOf(w, l, "none_pending")

(* P2P: lock the merchant's portfolio and credit total_amount *)
approve_withdrawals_credit(w) ==
    /\ pc[w] = "aw_credit"
    /\ Free(St, w, P(loc[w].obj.merchant))
    /\ UNCHANGED <<now, price>>
    /\ LET m == P(loc[w].obj.merchant)
           s1 == WriteRow(St, w, m,
                          [View(St, w, m) EXCEPT !.balance_usd = @ + TotalAmount(loc[w].obj)], TRUE)
       IN  Store(Moved(s1, w, W(loc[w].id), "credit", TRUE))
    /\ Goto(w, "aw_save", loc[w])

(* withdrawal.status = 'COMPLETED'; ...; withdrawal.save(); commit.        *)
(* log_admin_action is given withdrawals.filter(id__in=successful), a new  *)
(* query that still carries status='PENDING': it finds none of the rows    *)
(* just completed and writes no AdminLog row.                              *)
approve_withdrawals_save(w) ==
    /\ pc[w] = "aw_save"
    /\ Free(St, w, W(loc[w].id))
    /\ UNCHANGED <<now, price>>
    /\ Store(Commit(WriteRow(St, w, W(loc[w].id),
                             [loc[w].obj EXCEPT !.status = "COMPLETED",
                                                !.user_confirmation_required = FALSE,
                                                !.confirmed_at = <<now>>], TRUE), w))
    /\ Return(w, "success")

(* reject_withdrawals: withdrawals = queryset.filter(status='PENDING') *)
reject_withdrawals(w, i) ==
    /\ pc[w] = "idle"
    /\ UNCHANGED <<db, tx, lock, hist, ev, now, price>>
    /\ LET l == Call("reject_withdrawals", i, NoUser, TRUE)
       IN  IF W(i) \in DOMAIN db /\ StillPending(db[W(i)])
           THEN Goto(w, "rw_refund", [l EXCEPT !.obj = db[W(i)]])
           ELSE ReturnOf(w, l, "none_pending")

(* lock the user's portfolio and refund withdrawal.amount *)
reject_withdrawals_refund(w) ==
    /\ pc[w] = "rw_refund"
    /\ Free(St, w, P(loc[w].obj.user))
    /\ UNCHANGED <<now, price>>
    /\ LET k == P(loc[w].obj.user)
           s1 == WriteRow(St, w, k,
                          [View(St, w, k) EXCEPT !.balance_usd = @ + loc[w].obj.amount], TRUE)
       IN  Store(Moved(s1, w, W(loc[w].id), "refund", TRUE))
    /\ Goto(w, "rw_save", loc[w])

(* withdrawal.status = 'REJECTED'; ...; withdrawal.save(); commit *)
reject_withdrawals_save(w) ==
    /\ pc[w] = "rw_save"
    /\ Free(St, w, W(loc[w].id))
    /\ UNCHANGED <<now, price>>
    /\ Store(Commit(WriteRow(St, w, W(loc[w].id),
                             [loc[w].obj EXCEPT !.status = "REJECTED",
                                                !.user_confirmation_required = FALSE], TRUE), w))
    /\ Return(w, "success")

(* force_complete_withdrawals:                                             *)
(* queryset.filter(status='PENDING', user_confirmation_required=True)      *)
force_complete_withdrawals(w, i) ==
    /\ pc[w] = "idle"
    /\ UNCHANGED <<db, tx, lock, hist, ev, now, price>>
    /\ LET l == Call("force_complete_withdrawals", i, NoUser, TRUE)
       IN  IF W(i) \in DOMAIN db /\ StillPending(db[W(i)]) /\ db[W(i)].user_confirmation_required
           THEN Goto(w, IF P2P(db[W(i)]) THEN "fc_credit" ELSE "fc_save", [l EXCEPT !.obj = db[W(i)]])
           ELSE ReturnOf(w, l, "none_pending")

(* lock the merchant's portfolio and credit withdrawal.amount *)
force_complete_withdrawals_credit(w) ==
    /\ pc[w] = "fc_credit"
    /\ Free(St, w, P(loc[w].obj.merchant))
    /\ UNCHANGED <<now, price>>
    /\ LET m == P(loc[w].obj.merchant)
           s1 == WriteRow(St, w, m,
                          [View(St, w, m) EXCEPT !.balance_usd = @ + loc[w].obj.amount], TRUE)
       IN  Store(Moved(s1, w, W(loc[w].id), "credit", TRUE))
    /\ Goto(w, "fc_save", loc[w])

force_complete_withdrawals_save(w) ==
    /\ pc[w] = "fc_save"
    /\ Free(St, w, W(loc[w].id))
    /\ UNCHANGED <<now, price>>
    /\ Store(Commit(WriteRow(St, w, W(loc[w].id),
                             [loc[w].obj EXCEPT !.status = "COMPLETED",
                                                !.user_confirmation_required = FALSE,
                                                !.confirmed_at = <<now>>], TRUE), w))
    /\ Return(w, "success")

(* ---- tasks.process_withdrawal -> TransactionProcessor.process_withdrawal: ---- *)
(* select_for_update().get(id, status='PENDING'); status = 'APPROVED';     *)
(* save(); no balance is touched                                           *)
process_withdrawal(w, i) ==
    /\ pc[w] = "idle"
    /\ UNCHANGED <<now, price>>
    /\ LET l == Call("process_withdrawal", i, NoUser, TRUE)
       IN  IF W(i) \in DOMAIN db /\ StillPending(db[W(i)])
           THEN /\ Free(St, w, W(i))
                /\ Store(Commit(WriteRow(St, w, W(i), [db[W(i)] EXCEPT !.status = "APPROVED"],
                                         TRUE), w))
                /\ ReturnOf(w, l, "success")
           ELSE Store(St) /\ ReturnOf(w, l, "error")

(* ---- views.reject_withdrawal: get(status="PENDING"); status = "REJECTED"; save() ---- *)
reject_withdrawal(w, i) ==
    /\ pc[w] = "idle"
    /\ UNCHANGED <<db, tx, lock, hist, ev, now, price>>
    /\ LET l == Call("reject_withdrawal", i, NoUser, TRUE)
       IN  IF W(i) \in DOMAIN db /\ StillPending(db[W(i)])
           THEN Goto(w, "rjw_save", [l EXCEPT !.obj = db[W(i)]])
           ELSE ReturnOf(w, l, "not_found")

reject_withdrawal_save(w) ==
    /\ pc[w] = "rjw_save"
    /\ Free(St, w, W(loc[w].id))
    /\ UNCHANGED <<now, price>>
    /\ Store(Commit(WriteRow(St, w, W(loc[w].id), [loc[w].obj EXCEPT !.status = "REJECTED"], TRUE), w))
    /\ Return(w, "success")

---------------------------------------------------------------------------
(* Swaps *)

Assets == {"USDT", "BTC"}
(* price_usd is a FloatField; original_to_asset_price is a                 *)
(* DecimalField(max_digits=20, decimal_places=10).  Prices are counted in  *)
(* tenths of the tenth decimal place: one unit of the column is PriceUnit  *)
(* units of the model.                                                     *)
PriceUnit == 10
PriceSet == {10, 20}
InitialPrice == 10

(* The value the NUMERIC(20,10) column keeps of the quote p *)
QuantizePrice(p) ==
    LET r == p % PriceUnit
    IN  IF 2 * r >= PriceUnit THEN p - r + PriceUnit ELSE p - r
SwapAmounts == {0, 1000, 4000}
(* requested durations in minutes: too short, accepted, too long *)
Durations == {1, 5, 43205}
MinDuration == 5
MaxDuration == 43200
Swappers == {Referred}

(* The row SwapRequest.objects.create(...) inserts.  swap_back_amount is   *)
(* a FloatField, kept as the fraction <<numerator, denominator>> in lowest *)
(* terms; its default is 0.0.                                              *)
NewSwap(u, amount, from, to, back, due, quote) ==
    [user |-> u, from_asset |-> from, to_asset |-> to, swap_back_asset |-> back,
     swap_amount |-> amount, swap_back_amount |-> <<0, 1>>,
     original_to_asset_price |-> QuantizePrice(quote),
     swap_time |-> due, completed_at |-> <<>>, status |-> "PENDING"]

RECURSIVE Gcd(_, _)
Gcd(a, b) == IF b = 0 THEN a ELSE Gcd(b, a % b)

(* A fraction n/d of non-negative integers in lowest terms *)
Fraction(n, d) == LET g == Gcd(n, d) IN IF g = 0 THEN <<n, d>> ELSE <<n \div g, d \div g>>

(* to_amount = from_amount * from_price / original_to_price, a Decimal of  *)
(* 28 significant digits: kept as an exact fraction                        *)
ToAmount(sw) == <<sw.swap_amount * price[sw.from_asset], sw.original_to_asset_price>>

(* The quotes of the last leg exchanged: to_amount * back_price / latest   *)
SwapBackAmountInverted(sw) ==
    Fraction(ToAmount(sw)[1] * price[sw.swap_back_asset], ToAmount(sw)[2] * price[sw.to_asset])

(* swap_back_amount = to_amount * latest_to_price / back_price *)
SwapBackAmount(sw) ==
    Fraction(ToAmount(sw)[1] * price[sw.to_asset], ToAmount(sw)[2] * price[sw.swap_back_asset])

(* The credit with the digits after the fourth decimal cut off *)
CreditedTruncated(balance, x) ==
    LET n == balance * x[2] + x[1]
        a == IF n < 0 THEN -n ELSE n
        q == (a - (a % (x[2] * BalanceUnit))) \div x[2]
    IN  IF n < 0 THEN -q ELSE q

(* Decimal(str(portfolio.balance_usd)) + swap_back_amount as the           *)
(* NUMERIC(20,4) column keeps it: the multiple of BalanceUnit nearest to   *)
(* balance + x[1]/x[2], a tie going away from zero                         *)
Credited(balance, x) ==
    LET n == balance * x[2] + x[1]
        a == IF n < 0 THEN -n ELSE n
        m == x[2] * BalanceUnit
        r == a % m
        q == IF 2 * r >= m THEN (a - r) \div x[2] + BalanceUnit ELSE (a - r) \div x[2]
    IN  IF n < 0 THEN -q ELSE q

(* swap_tokens without the two tests that the source and the return asset *)
(* are USDT                                                               *)
swap_tokens_of_any_asset(w, u, from, to, back, amount, duration) ==
    /\ pc[w] = "idle"
    /\ NextId("SwapRequest") <= MaxSwaps
    /\ UNCHANGED <<now, price>>
    /\ LET l == Call("swap_tokens", 0, u, TRUE)
           pf == db[P(u)]
           k == S(NextId("SwapRequest"))
           s1 == WriteRow(LockRow(St, w, P(u)), w, k,
                          NewSwap(u, amount, from, to, back, now + duration, price[to]), TRUE)
           s2 == WriteRow([s1 EXCEPT !.hist = (k :> ZeroHist) @@ @], w, P(u),
                          [pf EXCEPT !.balance_usd = @ - amount], TRUE)
       IN  IF pf.is_frozen
           THEN Store(St) /\ ReturnOf(w, l, "suspended")
           ELSE IF to = from
           THEN Store(St) /\ ReturnOf(w, l, "same_asset")
           ELSE IF amount <= 0
           THEN Store(St) /\ ReturnOf(w, l, "invalid_amount")
           ELSE /\ Free(St, w, P(u))
                /\ IF pf.balance_usd < amount
                   THEN Store(St) /\ ReturnOf(w, l, "insufficient")
                   ELSE IF duration <= 0
                   THEN Store(St) /\ ReturnOf(w, l, "not_future")
                   ELSE IF duration < MinDuration
                   THEN Store(St) /\ ReturnOf(w, l, "too_short")
                   ELSE IF duration > MaxDuration
                   THEN Store(St) /\ ReturnOf(w, l, "too_long")
                   ELSE Store(Commit(s2, w)) /\ ReturnOf(w, l, "success")

(* swap_tokens: validate, lock the portfolio, record the swap at the       *)
(* current quote of to_asset, debit the principal                          *)
swap_tokens(w, u, from, to, back, amount, duration) ==
    /\ pc[w] = "idle"
    /\ NextId("SwapRequest") <= MaxSwaps
    /\ UNCHANGED <<now, price>>
    /\ LET l == Call("swap_tokens", 0, u, TRUE)
           pf == db[P(u)]
           k == S(NextId("SwapRequest"))
           s1 == WriteRow(LockRow(St, w, P(u)), w, k,
                          NewSwap(u, amount, from, to, back, now + duration, price[to]), TRUE)
           s2 == WriteRow([s1 EXCEPT !.hist = (k :> ZeroHist) @@ @], w, P(u),
                          [pf EXCEPT !.balance_usd = @ - amount], TRUE)
       IN  IF pf.is_frozen
           THEN Store(St) /\ ReturnOf(w, l, "suspended")
           ELSE IF from # "USDT" \/ back # "USDT"
           THEN Store(St) /\ ReturnOf(w, l, "not_usdt")
           ELSE IF to = from
           THEN Store(St) /\ ReturnOf(w, l, "same_asset")
           ELSE IF amount <= 0
           THEN Store(St) /\ ReturnOf(w, l, "invalid_amount")
           ELSE /\ Free(St, w, P(u))
                /\ IF pf.balance_usd < amount
                   THEN Store(St) /\ ReturnOf(w, l, "insufficient")
                   ELSE IF duration <= 0
                   THEN Store(St) /\ ReturnOf(w, l, "not_future")
                   ELSE IF duration < MinDuration
                   THEN Store(St) /\ ReturnOf(w, l, "too_short")
                   ELSE IF duration > MaxDuration
                   THEN Store(St) /\ ReturnOf(w, l, "too_long")
                   ELSE Store(Commit(s2, w)) /\ ReturnOf(w, l, "success")

(* process_swap selecting the swap by id alone, without status__in *)
SelectedByIdAlone(sw) == sw.status \in {"PENDING", "APPROVED", "IN_PROGRESS", "COMPLETED", "CANCELLED"}

(* The swaps select_for_update().get(id, status__in=[...]) can return *)
Processable(sw) == sw.status \in {"PENDING", "APPROVED", "IN_PROGRESS"}

(* SwapAdmin.complete_swap: swaps = queryset.filter(status='PENDING'),     *)
(* then process_swap(swap_id, force_process=True) inside the same atomic   *)
complete_swap(w, i) ==
    /\ pc[w] = "idle"
    /\ UNCHANGED <<db, tx, lock, hist, ev, now, price>>
    /\ LET l == Call("complete_swap", i, NoUser, TRUE)
       IN  IF S(i) \in DOMAIN db /\ StillPending(db[S(i)])
           THEN Goto(w, "ps_lock", [l EXCEPT !.flag = TRUE])
           ELSE ReturnOf(w, l, "none_pending")

(* auto_process_swaps: filter(status__in=["PENDING", "APPROVED"],          *)
(* swap_time__lte=current_time), then process_swap(swap.id)                *)
auto_process_swaps(w, i) ==
    /\ pc[w] = "idle"
    /\ UNCHANGED <<db, tx, lock, hist, ev, now, price>>
    /\ LET l == Call("auto_process_swaps", i, NoUser, TRUE)
       IN  IF /\ S(i) \in DOMAIN db
              /\ db[S(i)].status \in {"PENDING", "APPROVED"}
              /\ db[S(i)].swap_time <= now
           THEN Goto(w, "ps_lock", l)
           ELSE ReturnOf(w, l, "none_due")

(* A sweep that stops at the first swap whose settlement fails *)
ProcessSwapReturnsAborting(w, outcome) ==
    IF loc[w].op = "sweep" /\ outcome = "completed"
    THEN Goto(w, "aps_next", [loc[w] EXCEPT !.obj = NoObj, !.processed_count = @ + 1])
    ELSE Return(w, outcome)

(* process_swap returns to its caller: to the loop of auto_process_swaps,  *)
(* which counts a result "completed successfully" as processed and every   *)
(* other result or exception as failed, or to the handler that called it   *)
ProcessSwapReturns(w, outcome) ==
    IF loc[w].op = "sweep"
    THEN Goto(w, "aps_next",
              IF outcome = "completed"
              THEN [loc[w] EXCEPT !.obj = NoObj, !.processed_count = @ + 1]
              ELSE [loc[w] EXCEPT !.obj = NoObj, !.failed_count = @ + 1])
    ELSE Return(w, outcome)

(* auto_process_swaps: due_swaps = filter(status__in=["PENDING",           *)
(* "APPROVED"], swap_time__lte=current_time); the loop iterates over the   *)
(* rows the query returned when the loop started.  The query has no        *)
(* order_by; the rows are taken by ascending id, and SweepRows puts every  *)
(* kind of swap at every id, so that each kind is met first and last.      *)
DueSwaps ==
    {k \in Rows("SwapRequest") : db[k].status \in {"PENDING", "APPROVED"} /\ db[k].swap_time <= now}

RECURSIVE ByIdFrom(_, _)
ByIdFrom(K, i) ==
    IF K = {} THEN <<>>
    ELSE IF S(i) \in K THEN <<i>> \o ByIdFrom(K \ {S(i)}, i + 1)
    ELSE ByIdFrom(K, i + 1)

auto_process_swaps_begin(w) ==
    /\ pc[w] = "idle"
    /\ UNCHANGED <<db, tx, lock, hist, ev, now, price>>
    /\ LET q == ByIdFrom(DueSwaps, 1)
       IN  Goto(w, "aps_next", [Call("sweep", 0, NoUser, TRUE) EXCEPT !.due_swaps = q, !.todo = q])

(* for swap in due_swaps: result = process_swap(swap.id); after the last   *)
(* one: return f"Auto processed {processed_count} swaps, {failed_count}    *)
(* failed"                                                                 *)
SweepReport(processed, failed) ==
    "Auto processed " \o ToString(processed) \o " swaps, " \o ToString(failed) \o " failed"

auto_process_swaps_next(w) ==
    /\ pc[w] = "aps_next"
    /\ UNCHANGED <<db, tx, lock, hist, ev, now, price>>
    /\ IF loc[w].todo = <<>>
       THEN Return(w, SweepReport(loc[w].processed_count, loc[w].failed_count))
       ELSE Goto(w, "ps_lock", [loc[w] EXCEPT !.id = Head(loc[w].todo), !.todo = Tail(@),
                                              !.flag = FALSE])

(* process_swap(swap_id, force_process) called as a function: the swap is *)
(* looked up by id                                                         *)
process_swap_call(w, i, force) ==
    /\ pc[w] = "idle"
    /\ UNCHANGED <<db, tx, lock, hist, ev, now, price>>
    /\ LET l == Call("process_swap", i, NoUser, TRUE)
       IN  IF S(i) \in DOMAIN db
           THEN Goto(w, "ps_lock", [l EXCEPT !.flag = force])
           ELSE ReturnOf(w, l, "not_found")

(* process_swap without the test of the due time *)
process_swap_at_any_time(w) ==
    /\ pc[w] = "ps_lock"
    /\ UNCHANGED <<now, price>>
    /\ LET k == S(loc[w].id)
           sw == db[k]
           s1 == WriteRow(LockRow(St, w, k), w, k, [sw EXCEPT !.status = "IN_PROGRESS"], TRUE)
           done == [sw EXCEPT !.swap_back_amount = SwapBackAmount(sw),
                              !.status = "COMPLETED", !.completed_at = <<now>>]
       IN  IF Processable(sw)
           THEN /\ Free(St, w, k)
                /\ IF FALSE
                   THEN Store(Commit(St, w)) /\ ProcessSwapReturns(w, "not_due")
                   ELSE IF ToAmount(sw)[2] = 0 \/ price[sw.swap_back_asset] = 0
                   THEN Store(Rollback(St, w)) /\ ProcessSwapReturns(w, "error")
                   ELSE /\ Store(WriteRow(s1, w, k, done, TRUE))
                        /\ Goto(w, "ps_credit", [loc[w] EXCEPT !.obj = done])
           ELSE Store(Commit(St, w)) /\ ProcessSwapReturns(w, "not_found")

(* process_swap up to the portfolio lock: select the swap under its lock,  *)
(* check the due time, IN_PROGRESS, compute, COMPLETED                     *)
process_swap(w) ==
    /\ pc[w] = "ps_lock"
    /\ UNCHANGED <<now, price>>
    /\ LET k == S(loc[w].id)
           sw == db[k]
           s1 == WriteRow(LockRow(St, w, k), w, k, [sw EXCEPT !.status = "IN_PROGRESS"], TRUE)
           done == [sw EXCEPT !.swap_back_amount = SwapBackAmount(sw),
                              !.status = "COMPLETED", !.completed_at = <<now>>]
       IN  IF Processable(sw)
           THEN /\ Free(St, w, k)
                /\ IF ~loc[w].flag /\ sw.swap_time > now
                   THEN Store(Commit(St, w)) /\ ProcessSwapReturns(w, "not_due")
                   ELSE IF ToAmount(sw)[2] = 0 \/ price[sw.swap_back_asset] = 0
                   THEN Store(Rollback(St, w)) /\ ProcessSwapReturns(w, "error")
                   ELSE /\ Store(WriteRow(s1, w, k, done, TRUE))
                        /\ Goto(w, "ps_credit", [loc[w] EXCEPT !.obj = done])
           ELSE Store(Commit(St, w)) /\ ProcessSwapReturns(w, "not_found")

(* process_swap from the portfolio lock: credit swap_back_amount, create   *)
(* the four trades, commit                                                 *)
process_swap_credit(w) ==
    /\ pc[w] = "ps_credit"
    /\ Free(St, w, P(loc[w].obj.user))
    /\ UNCHANGED <<now, price>>
    /\ LET k == P(loc[w].obj.user)
           s1 == WriteRow(St, w, k,
                          [View(St, w, k) EXCEPT
                              !.balance_usd = Credited(@, loc[w].obj.swap_back_amount)],
                          TRUE)
           s2 == Moved(s1, w, S(loc[w].id), "credit", TRUE)
           s3 == Moved(Moved(Moved(Moved(s2, w, S(loc[w].id), "trades", TRUE),
                                   w, S(loc[w].id), "trades", TRUE),
                             w, S(loc[w].id), "trades", TRUE),
                       w, S(loc[w].id), "trades", TRUE)
       IN  Store(Commit(s3, w))
    /\ ProcessSwapReturns(w, "completed")

(* process_swap when Notification.objects.bulk_create or cache.delete       *)
(* raises after the payout: the exception leaves the function, which is    *)
(* decorated with transaction.atomic, so everything it wrote is rolled     *)
(* back                                                                    *)
process_swap_notification_fails(w) ==
    /\ pc[w] = "ps_credit"
    /\ Free(St, w, P(loc[w].obj.user))
    /\ UNCHANGED <<now, price>>
    /\ Store(Rollback(St, w))
    /\ ProcessSwapReturns(w, "error")

(* SwapAdmin.cancel_swap: swaps = queryset.filter(status='PENDING') *)
cancel_swap(w, i) ==
    /\ pc[w] = "idle"
    /\ UNCHANGED <<db, tx, lock, hist, ev, now, price>>
    /\ LET l == Call("cancel_swap", i, NoUser, TRUE)
       IN  IF S(i) \in DOMAIN db /\ StillPending(db[S(i)])
           THEN Goto(w, "cn_refund", [l EXCEPT !.obj = db[S(i)]])
           ELSE ReturnOf(w, l, "none_pending")

(* lock the user's portfolio and refund swap_amount *)
cancel_swap_refund(w) ==
    /\ pc[w] = "cn_refund"
    /\ Free(St, w, P(loc[w].obj.user))
    /\ UNCHANGED <<now, price>>
    /\ LET k == P(loc[w].obj.user)
           s1 == WriteRow(St, w, k,
                          [View(St, w, k) EXCEPT !.balance_usd = @ + loc[w].obj.swap_amount], TRUE)
       IN  Store(Moved(s1, w, S(loc[w].id), "refund", TRUE))
    /\ Goto(w, "cn_save", loc[w])

(* cancel_swap saving the swap with the destination asset's price of the   *)
(* moment                                                                  *)
cancel_swap_save_requoting(w) ==
    /\ pc[w] = "cn_save"
    /\ Free(St, w, S(loc[w].id))
    /\ UNCHANGED <<now, price>>
    /\ LET s1 == WriteRow(St, w, S(loc[w].id),
                          [loc[w].obj EXCEPT
                              !.status = "CANCELLED",
                              !.original_to_asset_price =
                                  QuantizePrice(price[loc[w].obj.to_asset])], TRUE)
       IN  Store(Commit(Moved(s1, w, S(loc[w].id), "CANCELLED", TRUE), w))
    /\ Return(w, "success")

(* swap.status = 'CANCELLED'; swap.save();                                 *)
(* log_admin_action(request, swaps, "CANCELLED") over the rows the loop    *)
(* has fetched; commit                                                     *)
cancel_swap_save(w) ==
    /\ pc[w] = "cn_save"
    /\ Free(St, w, S(loc[w].id))
    /\ UNCHANGED <<now, price>>
    /\ LET s1 == WriteRow(St, w, S(loc[w].id),
                          [loc[w].obj EXCEPT !.status = "CANCELLED"], TRUE)
       IN  Store(Commit(Moved(s1, w, S(loc[w].id), "CANCELLED", TRUE), w))
    /\ Return(w, "success")

(* views.cancel_swap_admin: get_object_or_404(SwapRequest, status="PENDING") *)
cancel_swap_admin(w, i) ==
    /\ pc[w] = "idle"
    /\ UNCHANGED <<db, tx, lock, hist, ev, now, price>>
    /\ LET l == Call("cancel_swap_admin", i, NoUser, TRUE)
       IN  IF S(i) \in DOMAIN db /\ StillPending(db[S(i)])
           THEN Goto(w, "csa_save", [l EXCEPT !.obj = db[S(i)]])
           ELSE ReturnOf(w, l, "not_found")

(* swap_request.status = "CANCELLED"; save(update_fields=['status']) *)
cancel_swap_admin_save(w) ==
    /\ pc[w] = "csa_save"
    /\ Free(St, w, S(loc[w].id))
    /\ UNCHANGED <<now, price>>
    /\ Store(WriteRow(St, w, S(loc[w].id),
                      [View(St, w, S(loc[w].id)) EXCEPT !.status = "CANCELLED"], TRUE))
    /\ Goto(w, "csa_refund", loc[w])

(* lock the portfolio, refund swap_amount, commit *)
cancel_swap_admin_refund(w) ==
    /\ pc[w] = "csa_refund"
    /\ Free(St, w, P(loc[w].obj.user))
    /\ UNCHANGED <<now, price>>
    /\ LET k == P(loc[w].obj.user)
           s1 == WriteRow(St, w, k,
                          [View(St, w, k) EXCEPT !.balance_usd = @ + loc[w].obj.swap_amount], TRUE)
       IN  Store(Commit(Moved(s1, w, S(loc[w].id), "refund", TRUE), w))
    /\ Return(w, "success")

(* views.complete_swap_admin: get_object_or_404(SwapRequest, status="PENDING") *)
complete_swap_admin(w, i) ==
    /\ pc[w] = "idle"
    /\ UNCHANGED <<db, tx, lock, hist, ev, now, price>>
    /\ LET l == Call("complete_swap_admin", i, NoUser, TRUE)
       IN  IF S(i) \in DOMAIN db /\ StillPending(db[S(i)])
           THEN Goto(w, "cpa_save", [l EXCEPT !.obj = db[S(i)]])
           ELSE ReturnOf(w, l, "not_found")

(* swap_request.status = "APPROVED"; save(update_fields=['status']).  For  *)
(* a due swap process_swap.delay raises (process_swap is a plain function) *)
(* and the handler swallows it; the status is committed either way.        *)
complete_swap_admin_save(w) ==
    /\ pc[w] = "cpa_save"
    /\ Free(St, w, S(loc[w].id))
    /\ UNCHANGED <<now, price>>
    /\ Store(Commit(WriteRow(St, w, S(loc[w].id),
                             [View(St, w, S(loc[w].id)) EXCEPT !.status = "APPROVED"], TRUE), w))
    /\ Return(w, IF loc[w].obj.swap_time <= now THEN "error" ELSE "scheduled")

(* UserPortfolioAdmin.freeze_accounts: for portfolio in                    *)
(* queryset.filter(is_frozen=False) reads the row without a lock           *)
freeze_accounts(w, u) ==
    /\ pc[w] = "idle"
    /\ UNCHANGED <<db, tx, lock, hist, ev, now, price>>
    /\ LET l == Call("freeze_accounts", 0, u, TRUE)
       IN  IF ~db[P(u)].is_frozen
           THEN Goto(w, "fz_save", [l EXCEPT !.obj = db[P(u)]])
           ELSE ReturnOf(w, l, "frozen 0")

(* portfolio.is_frozen = True; portfolio.save() writes every field of the  *)
(* object that was read; commit                                            *)
freeze_accounts_save(w) ==
    /\ pc[w] = "fz_save"
    /\ Free(St, w, P(loc[w].user))
    /\ UNCHANGED <<now, price>>
    /\ Store(Commit(WriteRow(St, w, P(loc[w].user),
                             [loc[w].obj EXCEPT !.is_frozen = TRUE], TRUE), w))
    /\ Return(w, "frozen 1")

(* UserPortfolioAdmin.unfreeze_accounts: queryset.filter(is_frozen=True) *)
unfreeze_accounts(w, u) ==
    /\ pc[w] = "idle"
    /\ UNCHANGED <<db, tx, lock, hist, ev, now, price>>
    /\ LET l == Call("unfreeze_accounts", 0, u, TRUE)
       IN  IF db[P(u)].is_frozen
           THEN Goto(w, "ufz_save", [l EXCEPT !.obj = db[P(u)]])
           ELSE ReturnOf(w, l, "unfrozen 0")

(* portfolio.is_frozen = False; portfolio.save(); commit *)
unfreeze_accounts_save(w) ==
    /\ pc[w] = "ufz_save"
    /\ Free(St, w, P(loc[w].user))
    /\ UNCHANGED <<now, price>>
    /\ Store(Commit(WriteRow(St, w, P(loc[w].user),
                             [loc[w].obj EXCEPT !.is_frozen = FALSE], TRUE), w))
    /\ Return(w, "unfrozen 1")

(* Environment: the clock advances; the quote of a traded asset changes *)
Tick ==
    /\ now + TickMinutes <= MaxTime
    /\ now' = now + TickMinutes
    /\ UNCHANGED <<db, tx, lock, hist, ev, pc, loc, res, price>>

SetPrice(a, p) ==
    /\ a # "USDT"
    /\ p # price[a]
    /\ price' = [price EXCEPT ![a] = p]
    /\ UNCHANGED <<db, tx, lock, hist, ev, pc, loc, res, now>>

---------------------------------------------------------------------------
(* Initial state: portfolios created at signup, one referral edge *)

Portfolio(u) ==
    [balance_usd |-> InitialBalance[u], initial_deposit_amount |-> <<>>,
     is_merchant |-> (u = Merchant), is_frozen |-> FALSE]

InitDb ==
    [k \in {P(u) : u \in Users} \cup {A(Referred)} |->
        IF k[1] = "UserPortfolio" THEN Portfolio(k[2])
        ELSE [referrer |-> Referrer, has_funded_wallet |-> FALSE]]

Init ==
    /\ db = InitDb
    /\ tx = [w \in Workers |-> NoRows]
    /\ lock = [k \in AllKeys |-> NoWorker]
    /\ hist = NoRows
    /\ ev = [w \in Workers |-> <<>>]
    /\ pc = [w \in Workers |-> "idle"]
    /\ loc = [w \in Workers |-> Idle]
    /\ res = [op |-> "", outcome |-> ""]
    /\ now = 0
    /\ price = [a \in Assets |-> InitialPrice]

NextDeposit ==
    \E w \in Workers :
        \/ \E amt \in PositiveAmounts, m \in {"BANK_TRANSFER", "ON_CHAIN"}, u \in Depositors :
               \E mid \in DOMAIN MerchantApplication : deposit_funds(w, u, amt, m, mid)
        \/ \E u \in Users, d \in DepositIds : merchant_approve_deposit(w, u, d)
        \/ merchant_approve_deposit_debit(w)
        \/ merchant_approve_deposit_credit(w)
        \/ \E u \in Users, d \in DepositIds : merchant_decline_deposit(w, u, d)
        \/ merchant_decline_deposit_save(w)
        \/ \E u \in Users, d \in DepositIds : confirm_merchant_payment(w, u, d)
        \/ confirm_merchant_payment_old(w)
        \/ confirm_merchant_payment_save(w)
        \/ confirm_merchant_payment_read(w)
        \/ confirm_merchant_payment_debit(w)
        \/ \E d \in DepositIds : approve_deposits(w, d)
        \/ approve_deposits_debit(w)
        \/ process_deposit(w)
        \/ process_deposit_credit(w)
        \/ \E d \in DepositIds : reject_deposits(w, d)
        \/ \E d \in DepositIds : reject_deposit(w, d)
        \/ reject_deposit_save(w)
        \/ ReferralSteps(w)

SpecDeposit == Init /\ [][NextDeposit]_vars

(* The approval paths alone: merchant_approve_deposit and the admin's      *)
(* approve_deposits with process_deposit                                   *)
NextApproval ==
    \E w \in Workers :
        \/ \E amt \in DepositAmounts, m \in {"BANK_TRANSFER", "ON_CHAIN"}, u \in Depositors :
               \E mid \in DOMAIN MerchantApplication : deposit_funds(w, u, amt, m, mid)
        \/ \E u \in Users, d \in DepositIds : merchant_approve_deposit(w, u, d)
        \/ merchant_approve_deposit_debit(w)
        \/ merchant_approve_deposit_credit(w)
        \/ \E d \in DepositIds : approve_deposits(w, d)
        \/ approve_deposits_debit(w)
        \/ process_deposit(w)
        \/ process_deposit_credit(w)
        \/ ReferralSteps(w)

SpecApproval == Init /\ [][NextApproval]_vars

(* The approval paths when the merchant holds the base amount of one       *)
(* deposit and no more                                                     *)
InitShort ==
    /\ db = [InitDb EXCEPT ![P(Merchant)].balance_usd = CHOOSE a \in PositiveAmounts : TRUE]
    /\ tx = [w \in Workers |-> NoRows]
    /\ lock = [k \in AllKeys |-> NoWorker]
    /\ hist = NoRows
    /\ ev = [w \in Workers |-> <<>>]
    /\ pc = [w \in Workers |-> "idle"]
    /\ loc = [w \in Workers |-> Idle]
    /\ res = [op |-> "", outcome |-> ""]
    /\ now = 0
    /\ price = [a \in Assets |-> InitialPrice]

NextShort ==
    \E w \in Workers :
        \/ \E amt \in PositiveAmounts : deposit_funds(w, Referred, amt, "BANK_TRANSFER", 1)
        \/ \E d \in DepositIds : merchant_approve_deposit(w, Merchant, d)
        \/ merchant_approve_deposit_debit(w)
        \/ merchant_approve_deposit_credit(w)
        \/ \E d \in DepositIds : approve_deposits(w, d)
        \/ approve_deposits_debit(w)
        \/ process_deposit(w)
        \/ process_deposit_credit(w)
        \/ ReferralSteps(w)

SpecShort == InitShort /\ [][NextShort]_vars

NextWithdrawal ==
    \E w \in Workers :
        \/ \E u \in Senders, a \in WithdrawAmounts, m \in {"BANK", "INTERNAL", "BYBIT"},
              mid \in DOMAIN MerchantApplication, acct \in AccountNumbers :
               withdraw_funds(w, u, a, m, mid, acct)
        \/ withdraw_funds_merchant(w)
        \/ withdraw_funds_internal(w)
        \/ \E u \in Users, i \in WithdrawalIds : user_confirm_withdrawal(w, u, i)
        \/ user_confirm_withdrawal_credit(w)
        \/ \E u \in Users, i \in WithdrawalIds : user_decline_withdrawal(w, u, i)
        \/ user_decline_withdrawal_refund(w)
        \/ \E i \in WithdrawalIds : approve_withdrawals(w, i)
        \/ approve_withdrawals_credit(w)
        \/ approve_withdrawals_save(w)
        \/ \E i \in WithdrawalIds : reject_withdrawals(w, i)
        \/ reject_withdrawals_refund(w)
        \/ reject_withdrawals_save(w)
        \/ \E i \in WithdrawalIds : force_complete_withdrawals(w, i)
        \/ force_complete_withdrawals_credit(w)
        \/ force_complete_withdrawals_save(w)
        \/ \E i \in WithdrawalIds : reject_withdrawal(w, i)
        \/ reject_withdrawal_save(w)
        \/ \E i \in WithdrawalIds : process_withdrawal(w, i)
        \/ withdraw_funds_deadlock(w)

SpecWithdrawal == Init /\ [][NextWithdrawal]_vars

(* Amounts of a request as sent: 0.00005, 0.02 and 0.02006 USD; nothing    *)
(* in the handlers limits the number of decimal places                     *)
RequestAmounts == {5, 2000, 2006}

(* A merchant-mediated withdrawal and the sender's answer to it *)
NextConfirm ==
    \E w \in Workers :
        \/ \E u \in Senders, a \in RequestAmounts, mid \in DOMAIN MerchantApplication :
               withdraw_funds(w, u, a, "BANK", mid, u)
        \/ withdraw_funds_merchant(w)
        \/ \E u \in Users, i \in WithdrawalIds : user_confirm_withdrawal(w, u, i)
        \/ user_confirm_withdrawal_credit(w)
        \/ \E u \in Users, i \in WithdrawalIds : user_decline_withdrawal(w, u, i)
        \/ user_decline_withdrawal_refund(w)

SpecConfirm == Init /\ [][NextConfirm]_vars

(* Amounts of a transfer request: negative, zero, 0.00005 USD, within and  *)
(* above the sender's balance                                              *)
TransferAmounts == {-2000, 0, 5, 2000, 4000}

(* Internal transfers between accounts *)
NextTransfer ==
    \E w \in Workers :
        \/ \E u \in Senders, a \in TransferAmounts, acct \in AccountNumbers :
               withdraw_funds(w, u, a, "INTERNAL", 1, acct)
        \/ withdraw_funds_internal(w)
        \/ withdraw_funds_deadlock(w)

SpecTransfer == Init /\ [][NextTransfer]_vars

(* Withdrawals to an external address and the admin actions on them *)
NextExternal ==
    \E w \in Workers :
        \/ \E u \in Senders, a \in RequestAmounts, m \in {"BYBIT", "ON_CHAIN"} :
               withdraw_funds(w, u, a, m, 1, u)
        \/ \E i \in WithdrawalIds : approve_withdrawals(w, i)
        \/ approve_withdrawals_save(w)
        \/ \E i \in WithdrawalIds : reject_withdrawals(w, i)
        \/ reject_withdrawals_refund(w)
        \/ reject_withdrawals_save(w)

SpecExternal == Init /\ [][NextExternal]_vars

(* Swap creation: requests of zero, sub-unit, affordable and unaffordable  *)
(* amounts, of every asset as source, destination and return asset, of     *)
(* durations on both sides of the two limits, while quotes move; a quote   *)
(* may carry more than ten decimals                                        *)
CreateAmounts == {0, 4, 1000, 4000}
CreateDurations == {0, 1, 5, 43200, 43205}
QuotePrices == {10, 14, 20}

NextCreate ==
    \/ Tick
    \/ \E a \in Assets, p \in QuotePrices : SetPrice(a, p)
    \/ \E w \in Workers, u \in Swappers, from \in Assets, to \in Assets, back \in Assets,
          a \in CreateAmounts, d \in CreateDurations :
            swap_tokens(w, u, from, to, back, a, d)

SpecCreate == Init /\ [][NextCreate]_vars

(* Settlement called directly, forced or not, on swaps that are due or not *)
NextDue ==
    \/ Tick
    \/ \E a \in Assets, p \in PriceSet : SetPrice(a, p)
    \/ \E w \in Workers :
        \/ \E u \in Swappers, to \in Assets, a \in SwapAmounts, d \in Durations :
               swap_tokens(w, u, "USDT", to, "USDT", a, d)
        \/ \E i \in SwapIds, force \in BOOLEAN : process_swap_call(w, i, force)
        \/ process_swap(w)
        \/ process_swap_credit(w)

SpecDue == Init /\ [][NextDue]_vars

(* Settlement by the periodic task of swaps of a sub-unit, of the smallest *)
(* and of a larger amount, at quotes whose ratio to the quote at creation  *)
(* is and is not a terminating decimal                                     *)
SettleAmounts == {4, 10, 1000}
SettlePrices == {20, 22}

NextSettle ==
    \/ Tick
    \/ \E a \in Assets, p \in SettlePrices : SetPrice(a, p)
    \/ \E w \in Workers :
        \/ \E u \in Swappers, a \in SettleAmounts :
               swap_tokens(w, u, "USDT", "BTC", "USDT", a, MinDuration)
        \/ \E i \in SwapIds : auto_process_swaps(w, i)
        \/ process_swap(w)
        \/ process_swap_credit(w)

SpecSettle == Init /\ [][NextSettle]_vars

(* The periodic sweep over several swaps.  The swaps exist when the sweep  *)
(* is considered: each was created by swap_tokens for 0.01, at a quote of  *)
(* 10 or of 0 (a price of 0 is accepted by SyntheticAsset.save), due in 5  *)
(* minutes or after the last sweep, and one may have been approved by      *)
(* complete_swap_admin.                                                    *)
SweepSwaps == MaxSwaps + 1
SweepAmount == 1000
SweepRows ==
    LET row(due, quote, st) ==
            [NewSwap(Referred, SweepAmount, "USDT", "BTC", "USDT", due, quote)
                EXCEPT !.status = st]
    IN  {row(MinDuration, InitialPrice, "PENDING"), row(MinDuration, InitialPrice, "APPROVED"),
         row(MinDuration, 0, "PENDING"), row(MaxTime + MinDuration, InitialPrice, "PENDING")}

InitSweep ==
    /\ \E rows \in [1..SweepSwaps -> SweepRows] :
          db = [k \in {S(i) : i \in 1..SweepSwaps} |-> rows[k[2]]]
               @@ [InitDb EXCEPT ![P(Referred)].balance_usd = @ - SweepSwaps * SweepAmount]
    /\ tx = [w \in Workers |-> NoRows]
    /\ lock = [k \in AllKeys |-> NoWorker]
    /\ hist = [k \in {S(i) : i \in 1..SweepSwaps} |-> ZeroHist]
    /\ ev = [w \in Workers |-> <<>>]
    /\ pc = [w \in Workers |-> "idle"]
    /\ loc = [w \in Workers |-> Idle]
    /\ res = [op |-> "", outcome |-> ""]
    /\ now = 0
    /\ price = [a \in Assets |-> InitialPrice]

NextSweep ==
    \/ Tick
    \/ \E w \in Workers :
        \/ auto_process_swaps_begin(w)
        \/ auto_process_swaps_next(w)
        \/ process_swap(w)
        \/ process_swap_credit(w)

SpecSweep == InitSweep /\ [][NextSweep]_vars

(* The scheduler keeps starting auto_process_swaps and every run of it     *)
(* goes on until it returns: each worker's next step is taken whenever it  *)
(* stays possible                                                          *)
SweepStep(w) ==
    \/ auto_process_swaps_begin(w)
    \/ auto_process_swaps_next(w)
    \/ process_swap(w)
    \/ process_swap_credit(w)

FairSweep == SpecSweep /\ \A w \in Workers : WF_vars(SweepStep(w))

(* Accounts are frozen and unfrozen while a swap of the frozen user is     *)
(* created, settled by the periodic task or cancelled by the admin         *)
NextFreeze ==
    \/ Tick
    \/ \E w \in Workers :
        \/ \E u \in Swappers : freeze_accounts(w, u)
        \/ freeze_accounts_save(w)
        \/ \E u \in Swappers : unfreeze_accounts(w, u)
        \/ unfreeze_accounts_save(w)
        \/ \E u \in Swappers, a \in SwapAmounts :
               swap_tokens(w, u, "USDT", "BTC", "USDT", a, MinDuration)
        \/ \E i \in SwapIds : auto_process_swaps(w, i)
        \/ process_swap(w)
        \/ process_swap_credit(w)
        \/ \E i \in SwapIds : cancel_swap(w, i)
        \/ cancel_swap_refund(w)
        \/ cancel_swap_save(w)

SpecFreeze == Init /\ [][NextFreeze]_vars

(* the three creation endpoints called by a user whose account is being    *)
(* suspended and reinstated from the admin                                 *)
NextSuspend ==
    \E w \in Workers :
        \/ freeze_accounts(w, Referred)
        \/ freeze_accounts_save(w)
        \/ unfreeze_accounts(w, Referred)
        \/ unfreeze_accounts_save(w)
        \/ \E amt \in PositiveAmounts, m \in {"BANK_TRANSFER", "ON_CHAIN"} :
               deposit_funds(w, Referred, amt, m, 1)
        \/ \E a \in PositiveAmounts, m \in {"BANK", "INTERNAL", "BYBIT"} :
               withdraw_funds(w, Referred, a, m, 2, Merchant)
        \/ withdraw_funds_merchant(w)
        \/ withdraw_funds_internal(w)
        \/ \E a \in PositiveAmounts :
               swap_tokens(w, Referred, "USDT", "BTC", "USDT", a, MinDuration)

SpecSuspend == Init /\ [][NextSuspend]_vars

NextSwap ==
    \/ Tick
    \/ \E a \in Assets, p \in PriceSet : SetPrice(a, p)
    \/ \E w \in Workers :
        \/ \E u \in Swappers, to \in Assets, a \in SwapAmounts, d \in Durations :
               swap_tokens(w, u, "USDT", to, "USDT", a, d)
        \/ \E i \in SwapIds : complete_swap(w, i)
        \/ \E i \in SwapIds : auto_process_swaps(w, i)
        \/ process_swap(w)
        \/ process_swap_credit(w)
        \/ \E i \in SwapIds : cancel_swap(w, i)
        \/ cancel_swap_refund(w)
        \/ cancel_swap_save(w)
        \/ \E i \in SwapIds : cancel_swap_admin(w, i)
        \/ cancel_swap_admin_save(w)
        \/ cancel_swap_admin_refund(w)
        \/ \E i \in SwapIds : complete_swap_admin(w, i)
        \/ complete_swap_admin_save(w)

SpecSwap == Init /\ [][NextSwap]_vars

(* process_swap and its two callers, the admin action complete_swap and    *)
(* the periodic auto_process_swaps, on swaps created by swap_tokens        *)
NextProcess ==
    \/ Tick
    \/ \E a \in Assets, p \in PriceSet : SetPrice(a, p)
    \/ \E w \in Workers :
        \/ \E u \in Swappers, to \in Assets, a \in SwapAmounts, d \in Durations :
               swap_tokens(w, u, "USDT", to, "USDT", a, d)
        \/ \E i \in SwapIds : complete_swap(w, i)
        \/ \E i \in SwapIds : auto_process_swaps(w, i)
        \/ process_swap(w)
        \/ process_swap_credit(w)

SpecProcess == Init /\ [][NextProcess]_vars

(* Settlement when the notification store or the cache may be unavailable  *)
NextNotify ==
    \/ Tick
    \/ \E w \in Workers :
        \/ \E u \in Swappers, to \in Assets, a \in SwapAmounts, d \in Durations :
               swap_tokens(w, u, "USDT", to, "USDT", a, d)
        \/ \E i \in SwapIds : complete_swap(w, i)
        \/ \E i \in SwapIds : auto_process_swaps(w, i)
        \/ process_swap(w)
        \/ process_swap_credit(w)
        \/ process_swap_notification_fails(w)

SpecNotify == Init /\ [][NextNotify]_vars


---------------------------------------------------------------------------
(* Properties *)

RECURSIVE SumOver(_, _, _)
SumOver(keys, h, f) ==
    IF keys = {} THEN 0
    ELSE LET k == CHOOSE x \in keys : TRUE
         IN  h[k][f] + SumOver(keys \ {k}, h, f)

AllIdle == \A w \in Workers : pc[w] = "idle"

DepositTerminal == {"APPROVED", "REJECTED"}
WithdrawalTerminal == {"COMPLETED", "REJECTED"}
SwapTerminal == {"COMPLETED", "CANCELLED"}

Terminal(k) ==
    db[k].status \in (IF k[1] = "Deposit" THEN DepositTerminal
                      ELSE IF k[1] = "Withdrawal" THEN WithdrawalTerminal
                      ELSE SwapTerminal)

Records == Rows("Deposit") \cup Rows("Withdrawal") \cup Rows("SwapRequest")

(* C1: whatever approval attempts race on one deposit, the merchant is     *)
(* debited on its behalf at most once and the depositor is credited on     *)
(* its behalf at most once.                                                *)
C1_DepositSettledOnce ==
    \A k \in Rows("Deposit") : hist[k].debit <= 1 /\ hist[k].credit <= 1

(* C2: whatever settlement attempts race on one merchant-mediated          *)
(* withdrawal, its escrow is paid out at most once in total: one credit to *)
(* the merchant or one refund to the sender, never two and never both.     *)
C2_EscrowPaidOnce ==
    \A k \in Rows("Withdrawal") :
        P2P(db[k]) => hist[k].credit + hist[k].refund <= 1

(* C3: when process_swap calls (forced or not) run concurrently on one     *)
(* swap, the requester is credited for it at most once and four trades are *)
(* created at most once; the call that finds the swap COMPLETED returns    *)
(* 'Swap not found' and changes no row, balance or trade, and every other  *)
(* call goes on to complete the swap.                                      *)
C3_SwapCompletedOnce ==
    /\ [](\A k \in Rows("SwapRequest") : hist[k].credit <= 1 /\ hist[k].trades <= 4)
    /\ [][\A w \in Workers :
            pc[w] = "ps_lock" /\ pc'[w] # "ps_lock"
                => IF db[S(loc[w].id)].status = "COMPLETED"
                   THEN /\ res' = [op |-> loc[w].op, outcome |-> "not_found"]
                        /\ db' = db
                        /\ hist' = hist
                   ELSE pc'[w] = "ps_credit"]_vars

(* C3 witness: a swap was completed and credited once, and the last call   *)
(* to return was a process_swap that found no swap to process              *)
C3_LoserFoundNothing ==
    /\ res.outcome = "not_found"
    /\ res.op \in {"complete_swap", "auto_process_swaps"}
    /\ \E k \in Rows("SwapRequest") :
           db[k].status = "COMPLETED" /\ hist[k].credit = 1 /\ hist[k].trades = 4

C5_BalanceNonNegative ==
    \A u \in Users : Balance(u) >= 0

Escrowed(k) == IF db[k].status = "PENDING" THEN db[k].amount ELSE 0

RECURSIVE SumBalances(_)
SumBalances(keys) ==
    IF keys = {} THEN 0
    ELSE LET k == CHOOSE x \in keys : TRUE
         IN  db[k].balance_usd + SumBalances(keys \ {k})

RECURSIVE SumEscrowed(_)
SumEscrowed(keys) ==
    IF keys = {} THEN 0
    ELSE LET k == CHOOSE x \in keys : TRUE
         IN  Escrowed(k) + SumEscrowed(keys \ {k})

RECURSIVE SumInitial(_)
SumInitial(us) ==
    IF us = {} THEN 0
    ELSE LET u == CHOOSE x \in us : TRUE
         IN  InitialBalance[u] + SumInitial(us \ {u})

Circulating == SumBalances(Rows("UserPortfolio")) + SumEscrowed(Rows("Withdrawal"))

(* C6: as long as only internal transfers and merchant-mediated            *)
(* withdrawals have been made, the sum of all balances plus the amounts    *)
(* escrowed in PENDING withdrawals equals what it was at the start.        *)
C6_MoneyConserved ==
    (\A k \in Rows("Withdrawal") : db[k].method \in {"BANK", "INTERNAL"})
        => Circulating = SumInitial(Users)

(* C7: a record in a terminal status keeps that status in every step, and  *)
(* no step moves a balance on its behalf.                                  *)
C7_TerminalImmutable ==
    [][\A k \in Records :
          Terminal(k) => /\ db'[k].status = db[k].status
                         /\ hist'[k] = hist[k]]_vars

(* C8: a withdrawal that has been moved to REJECTED has had its escrowed   *)
(* amount refunded to the sender exactly once.                             *)
C8_RejectedIsRefunded ==
    \A k \in Rows("Withdrawal") :
        db[k].status = "REJECTED" => hist[k].refund = 1

(* C9: once the handlers have returned, a merchant-mediated deposit that   *)
(* is APPROVED has had base_amount debited from the merchant, the same     *)
(* credited to the depositor, and has merchant_action_required false.      *)
C9_ApprovalMovesBaseAmount ==
    AllIdle =>
        \A k \in Rows("Deposit") :
            MerchantMediated(db[k]) /\ db[k].status = "APPROVED"
                => /\ hist[k].debit = 1
                   /\ hist[k].credit = 1
                   /\ ~db[k].merchant_action_required

(* C10: a merchant-mediated deposit whose status is REJECTED has had no    *)
(* balance moved on its behalf.                                            *)
C10_RejectedMovedNothing ==
    \A k \in Rows("Deposit") :
        MerchantMediated(db[k]) /\ db[k].status = "REJECTED"
            => hist[k].debit = 0 /\ hist[k].credit = 0 /\ hist[k].bonus = 0

(* C11: when the sender confirms a PENDING merchant-mediated withdrawal,   *)
(* the withdrawal becomes COMPLETED with user_confirmation_required false, *)
(* the sender's balance is not changed by the confirmation, and the        *)
(* merchant is credited exactly what was escrowed from the sender: once    *)
(* every withdrawal made has been confirmed, the balances add up to what   *)
(* they were before the withdrawals.                                       *)
C11_ConfirmCreditsEscrow ==
    /\ [](AllIdle /\ (\A k \in Rows("Withdrawal") : db[k].status = "COMPLETED")
            => SumBalances(Rows("UserPortfolio")) = SumInitial(Users))
    /\ [][\A w \in Workers :
            pc[w] = "ucw_credit" /\ pc'[w] = "idle"
                => LET wd == loc[w].obj
                       k == W(loc[w].id)
                   IN  /\ db'[k].status = "COMPLETED"
                       /\ ~db'[k].user_confirmation_required
                       /\ wd.user # wd.merchant
                             => db'[P(wd.user)].balance_usd = db[P(wd.user)].balance_usd]_vars

(* C12: an internal transfer of amount a that succeeds debits the sender   *)
(* by a, credits the recipient by a and inserts the Withdrawal record as   *)
(* COMPLETED in the same commit; no internal transfer is ever PENDING.     *)
C12_TransferMovesAmount ==
    /\ [](\A k \in Rows("Withdrawal") :
            db[k].method = "INTERNAL" => db[k].status = "COMPLETED")
    /\ [][\A w \in Workers :
            pc[w] = "wf_internal" /\ pc'[w] = "idle" /\ res'.outcome = "success"
                => LET u == loc[w].user
                       r == loc[w].id
                       a == loc[w].obj.amount
                   IN  /\ db'[P(u)].balance_usd = db[P(u)].balance_usd - a
                       /\ db'[P(r)].balance_usd = db[P(r)].balance_usd + a
                       /\ \E k \in DOMAIN db' \ DOMAIN db :
                              /\ db'[k].status = "COMPLETED"
                              /\ db'[k].user = u
                              /\ db'[k].amount = a]_vars

TransferFailures == {"invalid_amount", "insufficient", "recipient_not_found", "own_account"}

C14_ExternalEscrowThenApprove ==
    [][/\ \A k \in DOMAIN db' \ DOMAIN db :
            k[1] = "Withdrawal" /\ db'[k].method \notin {"BANK", "INTERNAL"}
                => /\ db'[k].status = "PENDING"
                   /\ db'[P(db'[k].user)].balance_usd
                         = db[P(db'[k].user)].balance_usd - db'[k].amount
       /\ \A w \in Workers :
            pc[w] = "aw_save" /\ pc'[w] = "idle" /\ ~P2P(loc[w].obj)
                => /\ db'[W(loc[w].id)].status = "COMPLETED"
                   /\ \A u \in Users : db'[P(u)].balance_usd = db[P(u)].balance_usd]_vars

(* C15: a successful swap creation persists a PENDING SwapRequest whose    *)
(* original_to_asset_price is the destination asset's price at creation    *)
(* and whose swap_time is between 5 minutes and 30 days after creation,    *)
(* and decreases the requester's balance by exactly swap_amount.           *)
C15_CreationEscrowsAndQuotes ==
    [][\A k \in DOMAIN db' \ DOMAIN db :
          k[1] = "SwapRequest"
              => LET sw == db'[k]
                 IN  /\ sw.status = "PENDING"
                     /\ sw.original_to_asset_price = price[sw.to_asset]
                     /\ now + MinDuration <= sw.swap_time
                     /\ sw.swap_time <= now + MaxDuration
                     /\ db'[P(sw.user)].balance_usd
                           = db[P(sw.user)].balance_usd - sw.swap_amount]_vars

(* C16: a swap creation request that fails validation (an asset that must *)
(* be USDT is not, source equals destination, amount <= 0, balance below   *)
(* the amount, settlement time less than 5 minutes or more than 30 days    *)
(* ahead) creates no SwapRequest and leaves the requester's balance        *)
(* unchanged: a refusal changes no row, and a SwapRequest is created only  *)
(* by a request that passes every test.                                    *)
CreationFailures ==
    {"not_usdt", "same_asset", "invalid_amount", "insufficient", "not_future",
     "too_short", "too_long"}

C16_RefusedCreationChangesNothing ==
    [][/\ res'.op = "swap_tokens" /\ res'.outcome \in CreationFailures
           => db' = db /\ hist' = hist
       /\ \A k \in DOMAIN db' \ DOMAIN db :
            k[1] = "SwapRequest"
                => LET sw == db'[k]
                   IN  /\ sw.from_asset = "USDT" /\ sw.swap_back_asset = "USDT"
                       /\ sw.to_asset # sw.from_asset
                       /\ sw.swap_amount > 0
                       /\ db[P(sw.user)].balance_usd >= sw.swap_amount
                       /\ sw.swap_time - now >= MinDuration
                       /\ sw.swap_time - now <= MaxDuration
                       /\ res'.outcome = "success"]_vars

(* C16 witness: a request whose return asset is not USDT was refused and   *)
(* no row has changed                                                      *)
C16_NotUsdtRefused ==
    /\ res = [op |-> "swap_tokens", outcome |-> "not_usdt"]
    /\ db = InitDb
    /\ Rows("SwapRequest") = {}

(* C17: process_swap called with force_process = false on a swap whose    *)
(* swap_time is still in the future returns early and leaves the swap's    *)
(* status, swap_back_amount and completed_at, the requester's balance and  *)
(* the trades and notifications unchanged (no row and no history entry     *)
(* changes, nothing is left uncommitted or locked).                        *)
C17_NotDueReturnsEarly ==
    [][\A w \in Workers :
          /\ pc[w] = "ps_lock" /\ pc'[w] # "ps_lock"
          /\ ~loc[w].flag
          /\ db[S(loc[w].id)].swap_time > now
          => /\ pc'[w] = "idle"
             /\ db' = db /\ hist' = hist
             /\ tx'[w] = NoRows /\ ev'[w] = <<>>
             /\ \A k \in DOMAIN lock' : lock'[k] # w]_vars

(* C17 witness: an unforced call has returned "not due" for a PENDING swap *)
(* whose swap_time is ahead; the swap is as it was created                 *)
C17_ReturnedNotDue ==
    /\ res = [op |-> "process_swap", outcome |-> "not_due"]
    /\ \E k \in Rows("SwapRequest") :
          /\ db[k].status = "PENDING" /\ db[k].swap_time > now
          /\ db[k].swap_back_amount = <<0, 1>> /\ db[k].completed_at = <<>>
          /\ hist[k] = ZeroHist
          /\ db[P(db[k].user)].balance_usd = InitialBalance[db[k].user] - db[k].swap_amount

C19_PriceRiseIsNetGain ==
    [][\A w \in Workers :
          /\ pc[w] = "ps_lock" /\ pc'[w] = "ps_credit"
                => LET sw == db[S(loc[w].id)]
                       x == loc'[w].obj.swap_back_amount
                   IN  /\ price[sw.swap_back_asset] = price[sw.from_asset]
                       /\ price[sw.to_asset] > sw.original_to_asset_price
                       => x[1] > sw.swap_amount * x[2]
          /\ pc[w] = "ps_credit" /\ pc'[w] = "idle"
                => LET sw == loc[w].obj
                       x == sw.swap_back_amount
                       paid == db'[P(sw.user)].balance_usd - db[P(sw.user)].balance_usd
                   IN  x[1] > sw.swap_amount * x[2]
                       => paid > sw.swap_amount]_vars

(* C19 as the code has it: return_amount is greater than swap_amount and   *)
(* the amount credited is return_amount rounded to 0.0001, which is more   *)
(* than swap_amount - 0.00005 (so at least swap_amount when swap_amount    *)
(* has four decimals) but need not exceed swap_amount.                     *)
C19_PriceRiseIsNoLoss ==
    [][\A w \in Workers :
          /\ pc[w] = "ps_lock" /\ pc'[w] = "ps_credit"
                => LET sw == db[S(loc[w].id)]
                       x == loc'[w].obj.swap_back_amount
                   IN  /\ price[sw.swap_back_asset] = price[sw.from_asset]
                       /\ price[sw.to_asset] > sw.original_to_asset_price
                       => x[1] > sw.swap_amount * x[2]
          /\ pc[w] = "ps_credit" /\ pc'[w] = "idle"
                => LET sw == loc[w].obj
                       x == sw.swap_back_amount
                       paid == db'[P(sw.user)].balance_usd - db[P(sw.user)].balance_usd
                   IN  x[1] > sw.swap_amount * x[2]
                       => 2 * (sw.swap_amount - paid) < BalanceUnit]_vars

(* C19 witness: a swap of 0.0001 created at quote 20 and settled at quote  *)
(* 22 has swap_back_amount 0.00011 and was credited 0.0001                 *)
C19_GainRoundedAway ==
    /\ AllIdle
    /\ \E k \in Rows("SwapRequest") :
          /\ db[k].status = "COMPLETED"
          /\ db[k].swap_amount = 10 /\ db[k].original_to_asset_price = 20
          /\ db[k].swap_back_amount = <<11, 1>>
          /\ hist[k].credit = 1
          /\ db[P(db[k].user)].balance_usd = InitialBalance[db[k].user]

(* C20: a cancel takes effect only on a swap that is PENDING; it refunds   *)
(* the requester exactly swap_amount and sets status CANCELLED; a          *)
(* cancelled swap has swap_back_amount 0, no trades and no settlement      *)
(* credit, and no swap is refunded twice: an APPROVED, COMPLETED or        *)
(* CANCELLED swap is not refunded by a cancel.                             *)
C20_CancelOnlyPending ==
    /\ [](AllIdle
            => \A k \in Rows("SwapRequest") :
                 /\ hist[k].refund <= 1
                 /\ hist[k].refund = 1
                       => /\ db[k].status = "CANCELLED"
                          /\ db[k].swap_back_amount = <<0, 1>>
                          /\ hist[k].credit = 0 /\ hist[k].trades = 0
                 /\ db[k].status = "CANCELLED" => hist[k].refund = 1)
    /\ [][\A w \in Workers :
            pc[w] \in {"cn_save", "csa_refund"} /\ pc'[w] = "idle"
                => LET k == S(loc[w].id)
                       u == loc[w].obj.user
                   IN  /\ db[k].status = "PENDING"
                       /\ db'[k].status = "CANCELLED"
                       /\ db'[P(u)].balance_usd
                             = db[P(u)].balance_usd + db[k].swap_amount]_vars

(* C21: one run of auto_process_swaps invokes non-forced settlement once  *)
(* for every swap that is PENDING or APPROVED with swap_time <= now when   *)
(* the sweep starts; a settlement that raises or fails leaves the rows as  *)
(* they were and the sweep goes on: when it returns, every swap it         *)
(* selected is COMPLETED and credited once, except those whose settlement  *)
(* raises, which are as before, and it reports the two counts, which add   *)
(* up to the number of swaps selected.                                     *)
C21_SweepSettlesEveryDueSwap ==
    [][\A w \in Workers :
          /\ pc[w] = "idle" /\ pc'[w] = "aps_next"
                => /\ {loc'[w].todo[n] : n \in DOMAIN loc'[w].todo} = {k[2] : k \in DueSwaps}
                   /\ Len(loc'[w].todo) = Cardinality(DueSwaps)
          /\ pc[w] = "aps_next" /\ pc'[w] = "ps_lock"
                => ~loc'[w].flag /\ loc'[w].id = Head(loc[w].todo)
          /\ pc[w] = "ps_lock" /\ pc'[w] = "aps_next"
                => /\ db' = db /\ hist' = hist
                   /\ loc'[w].failed_count = loc[w].failed_count + 1
                   /\ loc'[w].processed_count = loc[w].processed_count
          /\ pc[w] = "ps_credit" /\ pc'[w] = "aps_next"
                => /\ db'[S(loc[w].id)].status = "COMPLETED"
                   /\ loc'[w].processed_count = loc[w].processed_count + 1
                   /\ loc'[w].failed_count = loc[w].failed_count
          /\ loc[w].op = "sweep" /\ pc'[w] = "idle"
                => pc[w] = "aps_next" /\ loc[w].todo = <<>>
          /\ pc[w] = "aps_next" /\ pc'[w] = "idle"
                => /\ res'.outcome = SweepReport(loc[w].processed_count, loc[w].failed_count)
                   /\ loc[w].processed_count + loc[w].failed_count = Len(loc[w].due_swaps)
                   /\ \A n \in DOMAIN loc[w].due_swaps :
                        LET k == S(loc[w].due_swaps[n])
                        IN  IF db[k].original_to_asset_price # 0
                            THEN db[k].status = "COMPLETED" /\ hist[k].credit = 1
                                 /\ hist[k].trades = 4
                            ELSE db[k].status \in {"PENDING", "APPROVED"}
                                 /\ hist[k] = ZeroHist]_vars

(* C21 witness: a sweep over two due swaps has returned "1 processed, 1    *)
(* failed": the swap whose settlement raises is still PENDING and          *)
(* untouched, the other one is COMPLETED                                   *)
C21_OneSettledOneFailed ==
    /\ res = [op |-> "sweep", outcome |-> SweepReport(1, 1)]
    /\ \E k1, k2 \in Rows("SwapRequest") :
          /\ db[k1].status = "PENDING" /\ db[k1].original_to_asset_price = 0
          /\ db[k1].swap_time <= now /\ hist[k1] = ZeroHist
          /\ db[k2].status = "COMPLETED" /\ hist[k2].credit = 1

(* C22: while a user's is_frozen flag is set, no operation changes that    *)
(* user's balance_usd.                                                     *)
C22_FrozenBalanceUntouched ==
    [][\A u \in Users :
          db[P(u)].is_frozen /\ db'[P(u)].is_frozen
              => db'[P(u)].balance_usd = db[P(u)].balance_usd]_vars

(* C23: a request of a user whose is_frozen flag is set to create a        *)
(* deposit, a withdrawal (of any method) or a swap is answered with the    *)
(* "suspended" error and changes nothing: no record, no balance, no lock   *)
C23_SuspendedRequestRejected ==
    [][/\ \A w \in Workers :
             db[P(Referred)].is_frozen /\ pc[w] = "idle" /\ pc'[w] # "idle"
                 => loc'[w].op \notin {"deposit_funds", "withdraw_funds", "swap_tokens"}
       /\ /\ db[P(Referred)].is_frozen
          /\ pc' = pc /\ now' = now
          /\ res'.op \in {"deposit_funds", "withdraw_funds", "swap_tokens"}
          => /\ res'.outcome = "suspended"
             /\ db' = db /\ hist' = hist /\ tx' = tx /\ lock' = lock /\ ev' = ev
       /\ res'.outcome = "suspended" /\ res' # res
          => db[P(Referred)].is_frozen /\ db' = db /\ hist' = hist]_vars

(* C23 witness: the suspended user's withdrawal request has been refused,  *)
(* after a deposit request made before the suspension was accepted; no     *)
(* withdrawal exists and the balance is the initial one                    *)
C23_SuspendedWithdrawalRefused ==
    /\ db[P(Referred)].is_frozen
    /\ res = [op |-> "withdraw_funds", outcome |-> "suspended"]
    /\ Rows("Deposit") # {}
    /\ Rows("Withdrawal") = {}
    /\ db[P(Referred)].balance_usd = InitialBalance[Referred]

(* C24: when the merchant's balance is below base_amount at the approval  *)
(* of a merchant-mediated deposit, by the merchant or by the admin action, *)
(* the approval is refused and writes nothing: the deposit stays PENDING   *)
(* with merchant_action_required set and no balance changes; an approval   *)
(* is refused for this reason only                                         *)
C24_ShortMerchantRefused ==
    [][/\ \A w \in Workers :
             /\ pc[w] = "mad_debit" /\ pc'[w] # "mad_debit"
                 => IF db[P(loc[w].user)].balance_usd < BaseAmount(loc[w].obj)
                    THEN /\ res' = [op |-> "merchant_approve_deposit",
                                    outcome |-> "insufficient"]
                         /\ db' = db /\ hist' = hist
                         /\ db[D(loc[w].id)].status = "PENDING"
                         /\ db[D(loc[w].id)].merchant_action_required
                    ELSE pc'[w] # "idle"
             /\ pc[w] = "ad_debit" /\ pc'[w] # "ad_debit"
                 => IF db[P(loc[w].obj.merchant)].balance_usd < BaseAmount(loc[w].obj)
                    THEN /\ res' = [op |-> "approve_deposits", outcome |-> "insufficient"]
                         /\ db' = db /\ hist' = hist
                    ELSE pc'[w] # "idle"
       /\ res'.outcome = "insufficient" /\ res' # res
             => \E w \in Workers : pc[w] \in {"mad_debit", "ad_debit"} /\ pc'[w] = "idle"]_vars

(* C24 witness: the merchant, left with nothing after approving one        *)
(* deposit, has been refused the approval of a second one, which is still  *)
(* PENDING and awaiting the merchant; the depositor holds the first        *)
(* deposit's base amount only                                              *)
C24_SecondApprovalRefused ==
    /\ res = [op |-> "merchant_approve_deposit", outcome |-> "insufficient"]
    /\ db[P(Merchant)].balance_usd = 0
    /\ db[P(Referred)].balance_usd = InitialBalance[Referred] + 2000
    /\ \E d \in Rows("Deposit") :
          /\ db[d].status = "PENDING" /\ db[d].merchant_action_required
          /\ db[d].merchant = Merchant /\ hist[d] = ZeroHist

(* C25: a merchant-mediated deposit or withdrawal that names a             *)
(* counterparty whose is_merchant flag is off is refused: no record naming *)
(* that counterparty is created, nothing is escrowed for it, and the flag  *)
(* is not turned on                                                        *)
C25_NonMerchantRefused ==
    [][/\ \A k \in DOMAIN db' \ DOMAIN db :
             k[1] \in {"Deposit", "Withdrawal"} /\ db'[k].merchant # NoUser
                 => db[P(db'[k].merchant)].is_merchant
       /\ \A u \in Users : db'[P(u)].is_merchant => db[P(u)].is_merchant]_vars

(* C26: a direct deposit (no merchant, merchant_action_required off)      *)
(* becomes APPROVED only when the admin action approve_deposits commits,   *)
(* and that approval adds exactly the deposit's amount to the depositor's  *)
(* balance and lowers no balance                                           *)
C26_DirectDepositApprovedByAdmin ==
    [][\A k \in Rows("Deposit") :
          /\ db[k].merchant = NoUser /\ ~db[k].merchant_action_required
          /\ db[k].status # "APPROVED" /\ db'[k].status = "APPROVED"
          => /\ \E w \in Workers :
                   /\ loc[w].op = "approve_deposits" /\ loc[w].id = k[2]
                   /\ pc[w] = "pd_credit" /\ pc'[w] = "idle"
             /\ db'[P(db[k].user)].balance_usd = db[P(db[k].user)].balance_usd + db[k].amount
             /\ \A u \in Users : db'[P(u)].balance_usd >= db[P(u)].balance_usd]_vars

C28_ForceCompleteLogged ==
    [][\A w \in Workers :
          pc[w] = "fc_save" /\ pc'[w] = "idle" /\ res'.outcome = "success"
              => /\ Len(hist'[W(loc[w].id)].log) = Len(hist[W(loc[w].id)].log) + 1
                 /\ hist'[W(loc[w].id)].log[Len(hist'[W(loc[w].id)].log)] # "APPROVED"]_vars

(* C29: a Withdrawal's status is always PENDING, COMPLETED or REJECTED,    *)
(* and it changes only from PENDING to COMPLETED or from PENDING to        *)
(* REJECTED                                                                *)
C29_WithdrawalStatusMachine ==
    /\ [](\A k \in Rows("Withdrawal") : db[k].status \in {"PENDING", "COMPLETED", "REJECTED"})
    /\ [][\A k \in Rows("Withdrawal") :
             db'[k].status # db[k].status
                 => db[k].status = "PENDING" /\ db'[k].status \in {"COMPLETED", "REJECTED"}]_vars

(* C30: a SwapRequest's original_to_asset_price is never changed once the  *)
(* swap exists: settlement (forced or scheduled), cancellation, the        *)
(* admin's status changes and later prices of the destination asset leave  *)
(* the value swap_tokens stored                                            *)
C30_OriginalPriceImmutable ==
    [][\A k \in Rows("SwapRequest") :
          db'[k].original_to_asset_price = db[k].original_to_asset_price]_vars

(* C30 witness: the destination asset's price has moved away from the      *)
(* quote of a swap that has since been settled or cancelled, and the swap  *)
(* still carries the quote of its creation                                 *)
C30_QuoteKeptAfterPriceMoved ==
    \E k \in Rows("SwapRequest") :
        /\ db[k].status \in {"COMPLETED", "CANCELLED"}
        /\ db[k].original_to_asset_price = InitialPrice
        /\ price[db[k].to_asset] # InitialPrice

(* C31: the fee annotation of a merchant-mediated deposit of base amount b *)
(* records base_amount b, fee_amount 3.5% of b and their sum; it is never  *)
(* modified afterwards; and an approval (by the merchant or by the admin   *)
(* action) takes the annotated base_amount from the merchant and gives it  *)
(* to the depositor                                                        *)
C31_AnnotatedBaseIsPaid ==
    [][/\ \A k \in Rows("Deposit") : db'[k].deposit_notes = db[k].deposit_notes
       /\ \A k \in DOMAIN db' \ DOMAIN db :
             k[1] = "Deposit" /\ db'[k].merchant # NoUser
                 => /\ Len(db'[k].deposit_notes) = 1
                    /\ db'[k].deposit_notes[1].base_amount = db'[k].amount
                    /\ 1000 * db'[k].deposit_notes[1].fee_amount = 35 * db'[k].amount
                    /\ db'[k].deposit_notes[1].total_amount_with_fee
                          = db'[k].amount + db'[k].deposit_notes[1].fee_amount
       /\ \A w \in Workers :
             /\ pc[w] \in {"mad_credit", "pd_credit"} /\ pc'[w] = "idle"
             /\ db[D(loc[w].id)].merchant # NoUser
             /\ db'[D(loc[w].id)].status = "APPROVED"
             => LET dep == db[D(loc[w].id)]
                    base == dep.deposit_notes[1].base_amount
                IN  /\ db'[P(dep.merchant)].balance_usd = db[P(dep.merchant)].balance_usd - base
                    /\ db'[P(dep.user)].balance_usd = db[P(dep.user)].balance_usd + base]_vars

(* C32: however a cancellation of a swap (the admin action cancel_swap or  *)
(* the view cancel_swap_admin) interleaves with its settlement             *)
(* (process_swap, scheduled or forced), the requester is credited at most  *)
(* once for the swap, by the refund with final status CANCELLED or by the  *)
(* payout, never by both, and a swap that was paid out is not CANCELLED    *)
C32_RefundOrPayoutNotBoth ==
    AllIdle
        => \A k \in Rows("SwapRequest") :
             /\ hist[k].refund + hist[k].credit <= 1
             /\ hist[k].refund = 1 => db[k].status = "CANCELLED"
             /\ hist[k].credit = 1 => db[k].status # "CANCELLED"

(* What the committed balance changes made on behalf of the deposits add   *)
(* up to for user u: credits as depositor, debits as merchant, bonuses as  *)
(* referrer                                                                *)
RECURSIVE DepositLedger(_, _)
DepositLedger(u, keys) ==
    IF keys = {} THEN 0
    ELSE LET k == CHOOSE x \in keys : TRUE
             dep == db[k]
         IN  (IF dep.user = u THEN hist[k].credit * dep.amount ELSE 0)
             - (IF dep.merchant = u THEN hist[k].debit * dep.amount ELSE 0)
             + (IF dep.user = Referred /\ u = Referrer
                THEN hist[k].bonus * BonusAmount(dep) ELSE 0)
             + DepositLedger(u, keys \ {k})

(* C33: no balance update is lost: once the requests have returned, every  *)
(* user's balance is the initial balance plus the committed credits minus  *)
(* the committed debits, the referrer's bonus and the depositor's          *)
(* portfolio save of the referral step included                            *)
C33_NoLostUpdate ==
    AllIdle
        => \A u \in Users :
             Balance(u) = InitialBalance[u] + DepositLedger(u, Rows("Deposit"))

(* C34: an approval of a deposit that fails (process_deposit finds the     *)
(* deposit already processed) leaves every committed row as it was before  *)
(* the attempt's last step: no status, no merchant balance, no depositor   *)
(* balance and no referral edge changes, and nothing is counted as moved   *)
C34_FailedApprovalChangesNothing ==
    [][\A w \in Workers :
          /\ loc[w].op = "approve_deposits"
          /\ pc[w] # "idle" /\ pc'[w] = "idle"
          /\ res'.outcome # "success"
          => db' = db /\ hist' = hist]_vars

(* C35: the requests that lock two balance rows take them in one order, so *)
(* no two of them ever wait for each other: two internal transfers in      *)
(* opposite directions are never each holding the row the other needs      *)
C35_NoLockCycle ==
    \A w1, w2 \in Workers :
        ~ /\ w1 # w2
          /\ pc[w1] = "wf_internal" /\ pc[w2] = "wf_internal"
          /\ lock[P(loc[w1].id)] = w2
          /\ lock[P(loc[w2].id)] = w1

(* C36: the merchant of a merchant-mediated withdrawal is credited for it  *)
(* only by the sender's confirmation or by the admin's force-complete: no  *)
(* other operation, the admin's approve_withdrawals included, credits the  *)
(* merchant while user_confirmation_required is on                         *)
C36_MerchantPaidOnConfirmationOnly ==
    [][\A k \in Rows("Withdrawal") :
          /\ P2P(db[k]) /\ db[k].user_confirmation_required
          /\ hist'[k].credit > hist[k].credit
          => \E w \in Workers :
                /\ pc[w] # "idle" /\ pc'[w] = "idle"
                /\ loc[w].id = k[2]
                /\ loc[w].op \in {"user_confirm_withdrawal", "force_complete_withdrawals"}]_vars

(* C37: once process_swap has computed the payout and written the swap     *)
(* COMPLETED, a failure to create the completion notifications does not    *)
(* undo it: the call ends with the swap COMPLETED and the requester        *)
(* credited once more                                                      *)
C37_NotificationFailureKeepsPayout ==
    [][\A w \in Workers :
          pc[w] = "ps_credit" /\ pc'[w] # "ps_credit"
              => LET k == S(loc[w].id)
                 IN  /\ db'[k].status = "COMPLETED"
                     /\ hist'[k].credit = hist[k].credit + 1]_vars

(* C38: while the scheduler keeps running auto_process_swaps, every swap   *)
(* that is PENDING or APPROVED with its swap_time elapsed is eventually    *)
(* COMPLETED, whatever the quote it was created at                         *)
C38_DueSwapEventuallyCompleted ==
    \A i \in 1..SweepSwaps :
        (db[S(i)].status \in {"PENDING", "APPROVED"} /\ db[S(i)].swap_time <= now)
            ~> (db[S(i)].status = "COMPLETED")

(* C39: every transaction whose status one of the admin's bulk actions     *)
(* approve_deposits, reject_deposits, approve_withdrawals or cancel_swap   *)
(* changes gets exactly one AdminLog row from that action                  *)
C39_BulkActionLogsEachRecord ==
    [][/\ \A w \in Workers : pc'[w] # pc[w] => pc'[w] = "idle"
       /\ res'.op \in {"approve_deposits", "reject_deposits", "approve_withdrawals", "cancel_swap"}
       => \A k \in Records :
             db'[k].status # db[k].status
                 => Len(hist'[k].log) = Len(hist[k].log) + 1]_vars

(* C40: the fee annotation of a merchant-mediated withdrawal is consistent *)
(* with itself: fee_amount is fee_percentage (kept in tenths of a percent) *)
(* of the gross amount, user_receives is the gross amount less fee_amount, *)
(* and total_amount_processed is the gross amount taken from the sender    *)
C40_WithdrawalAnnotationConsistent ==
    [][\A k \in DOMAIN db' \ DOMAIN db :
          k[1] = "Withdrawal" /\ db'[k].method = "BANK"
              => LET wd == db'[k]
                     notes == wd.withdrawal_notes[1]
                 IN  /\ notes.fee_amount = (notes.fee_percentage * wd.amount) \div 1000
                     /\ notes.user_receives = wd.amount - notes.fee_amount
                     /\ notes.total_amount_processed = wd.amount
                     /\ db'[P(wd.user)].balance_usd
                           = db[P(wd.user)].balance_usd - notes.total_amount_processed]_vars

============================================================================
